---- MODULE Spec2Model ----
(***************************************************************************)
(* A model of the HootCAD extension core:                                  *)
(*   - ParameterCache (src/src/parameterCache.ts): the per-file cache of   *)
(*     user-edited parameter values, its persistence and the merge of      *)
(*     cached values with the defaults of the parameter definitions;       *)
(*   - resolveJscadEntrypointWithOptions (jscadEngine, src/unnamed/        *)
(*     part_001): the entrypoint priority chain;                           *)
(*   - triangulatePolygon / convertGeom3ToBufferGeometry                   *)
(*     (src/src/threeJsConverter.ts): fan triangulation into flat buffers. *)
(*                                                                         *)
(* JavaScript values are records [t, n, s]: t is the kind of value, n the  *)
(* payload of a boolean (0/1) or of a finite number, s the characters of a *)
(* string.  Finite numbers are fixed-point with one decimal digit: n is    *)
(* the number of tenths (39 is 3.9).  Strings are sequences of characters, *)
(* so that parseInt, parseFloat, toLowerCase, String() and endsWith are    *)
(* computed character by character.  JavaScript objects and Maps are       *)
(* sequences of [key, val] entries in insertion order.                     *)
(***************************************************************************)
EXTENDS Integers, Sequences, FiniteSets, TLC

VARIABLES
    cache,      \* ParameterCache.cache : Map<filePath, Record<name, value>>
    store,      \* context.workspaceState under 'hootcad.parameterCache'
    merged,     \* the result of the last getMergedParameters call
    op,         \* the last ParameterCache operation and its arguments (old:
                \* the value an updateParameter overwrote)
    rsIn,       \* the inputs of the last resolveJscadEntrypointWithOptions call
    rsOut,      \* its result
    geom,       \* the Geom3 handed to convertGeom3ToBufferGeometry
    buf,        \* the BufferGeometryData it returned
    tris,       \* the last triangulatePolygon call: its argument and result
    geom2,      \* the Geom2 handed to convertGeom2ToLineGeometry
    buf2,       \* the BufferGeometryData it returned
    script,     \* the .jscad file the engine is called on: how it loads, what
                \* it exports, what its functions do
    ex,         \* the outcome of the executeJscadFile call on it
    pd,         \* the outcome of the getParameterDefinitions call on it
    panel,      \* currentPanel is set: the preview panel exists
    status,     \* statusBarItem.text
    timers,     \* the pending setTimeout callbacks that reset the status
    disk,       \* the entrypoint script as it is on disk
    runs,       \* the executeAndRender calls so far, in the order they began
    queue,      \* the calls whose awaited promise has settled and whose
                \* continuation is queued, first in first out
    posted,     \* the messages posted to the preview, in order
    view,       \* the client script of the preview: its scene and overlay
    ic,         \* the InputController: its fields and registered listeners
    icPre,      \* the InputController before the last event or method call
    icEv,       \* the last event of the element, or the last method called
    icCalls,    \* the calls that event made on the camera controller and
                \* the onInteraction hook
    orbit,      \* the closure of setupControls in the client script
    files,      \* the .jscad files on disk: what each does when it is run
    nodeCache,  \* the module cache of Node's require, shared by all loads
    stack,      \* the loadJscadModuleFromFile calls in progress, innermost last
    loads,      \* the outcomes of the finished outermost loads, in order
    variant,    \* which startMcpServer the McpManager has: the one that
                \* spawns the server, or the one that probes candidates
    mcpProcess, \* McpManager.mcpProcess: a process of procs, 0 for null
    procs,      \* the child processes the manager spawned, in order, each
                \* with its listeners and the closure of its promise
    starts,     \* the startMcpServer calls so far and how each ended
    disposed    \* dispose() was called

cacheVars == <<cache, store, merged, op>>
resolveVars == <<rsIn, rsOut>>
convVars == <<geom, buf, tris, geom2, buf2>>
engineVars == <<script, ex, pd>>
extVars == <<panel, status, timers, disk, runs, queue, posted, view>>
inputVars == <<ic, icPre, icEv, icCalls>>
loaderVars == <<files, nodeCache, stack, loads>>
mcpVars == <<variant, mcpProcess, procs, starts, disposed>>
restVars == <<inputVars, orbit, loaderVars, mcpVars>>
vars == <<cacheVars, resolveVars, convVars, engineVars, extVars, restVars>>

----------------------------------------------------------------------------
(* JavaScript values *)

Undefined == [t |-> "undefined", n |-> 0, s |-> <<>>]
Null == [t |-> "null", n |-> 0, s |-> <<>>]
Bool(b) == [t |-> "boolean", n |-> IF b THEN 1 ELSE 0, s |-> <<>>]
Num(tenths) == [t |-> "number", n |-> tenths, s |-> <<>>]
NaN == [t |-> "nan", n |-> 0, s |-> <<>>]
Infinity == [t |-> "infinity", n |-> 0, s |-> <<>>]
Str(chars) == [t |-> "string", n |-> 0, s |-> chars]

\* typeof value
TypeOf(v) ==
    CASE v.t \in {"number", "nan", "infinity"} -> "number"
      [] v.t = "null" -> "object"
      [] OTHER -> v.t

\* Number.isFinite(value) for a value whose typeof is 'number'
IsFinite(v) == v.t = "number"

\* Math.trunc on tenths: toward zero
Trunc(v) ==
    IF v.n >= 0 THEN Num((v.n \div 10) * 10) ELSE Num(-(((-v.n) \div 10) * 10))

Digits == <<"0", "1", "2", "3", "4", "5", "6", "7", "8", "9">>
IsDigit(c) == \E d \in 1..10 : Digits[d] = c
DigitVal(c) == (CHOOSE d \in 1..10 : Digits[d] = c) - 1

UpperCase == <<"A", "B", "E", "F", "L", "N", "O", "R", "S", "T", "U">>
LowerCase == <<"a", "b", "e", "f", "l", "n", "o", "r", "s", "t", "u">>

\* a comparison that forgets toLowerCase
ToLowerCaseNone(chars) == chars

\* String.prototype.toLowerCase, character by character (the letters of the
\* model's strings)
ToLowerCase(chars) ==
    [i \in 1..Len(chars) |->
        IF \E j \in 1..Len(UpperCase) : UpperCase[j] = chars[i]
        THEN LowerCase[CHOOSE j \in 1..Len(UpperCase) : UpperCase[j] = chars[i]]
        ELSE chars[i]]

RECURSIVE SkipWhite(_, _)
\* the index of the first character at or after i that is not white space
SkipWhite(chars, i) ==
    IF i <= Len(chars) /\ chars[i] = " " THEN SkipWhite(chars, i + 1) ELSE i

RECURSIVE ScanDigits(_, _, _)
\* the run of decimal digits starting at i: its value and the index after it
ScanDigits(chars, i, acc) ==
    IF i <= Len(chars) /\ IsDigit(chars[i])
    THEN ScanDigits(chars, i + 1, acc * 10 + DigitVal(chars[i]))
    ELSE [val |-> acc, next |-> i]

SignAt(chars, i) ==
    IF i <= Len(chars) /\ chars[i] = "-" THEN -1 ELSE 1

AfterSign(chars, i) ==
    IF i <= Len(chars) /\ chars[i] \in {"+", "-"} THEN i + 1 ELSE i

\* parseInt(string, 10): leading white space, a sign, then the longest run of
\* digits; NaN when there is no digit
ParseInt(chars) ==
    LET i0 == SkipWhite(chars, 1)
        i1 == AfterSign(chars, i0)
        r  == ScanDigits(chars, i1, 0)
    IN  IF r.next = i1 THEN NaN ELSE Num(SignAt(chars, i0) * r.val * 10)

\* parseFloat(string): leading white space, a sign, digits, then an optional
\* '.' and digits; NaN when there is no digit at all.  The fixed-point numbers
\* keep the first fractional digit (the strings of the model have at most one;
\* exponents and the literal 'Infinity' do not occur in them).
ParseFloat(chars) ==
    LET i0 == SkipWhite(chars, 1)
        i1 == AfterSign(chars, i0)
        r  == ScanDigits(chars, i1, 0)
        dot == r.next <= Len(chars) /\ chars[r.next] = "."
        f  == IF dot THEN ScanDigits(chars, r.next + 1, 0)
                     ELSE [val |-> 0, next |-> r.next]
        nInt == r.next - i1
        nFrac == IF dot THEN f.next - (r.next + 1) ELSE 0
        tenth == IF nFrac > 0 THEN DigitVal(chars[r.next + 1]) ELSE 0
    IN  IF nInt = 0 /\ nFrac = 0 THEN NaN
        ELSE Num(SignAt(chars, i0) * (r.val * 10 + tenth))

RECURSIVE NatToChars(_)
NatToChars(k) ==
    IF k < 10 THEN <<Digits[k + 1]>>
    ELSE NatToChars(k \div 10) \o <<Digits[(k % 10) + 1]>>

\* Number -> string of a finite number (Number::toString)
NumToChars(tenths) ==
    LET a == IF tenths < 0 THEN -tenths ELSE tenths
        sign == IF tenths < 0 THEN <<"-">> ELSE <<>>
        frac == IF a % 10 = 0 THEN <<>> ELSE <<".", Digits[(a % 10) + 1]>>
    IN  sign \o NatToChars(a \div 10) \o frac

\* String(value)
StringOf(v) ==
    CASE v.t = "string" -> v.s
      [] v.t = "undefined" -> <<"u", "n", "d", "e", "f", "i", "n", "e", "d">>
      [] v.t = "null" -> <<"n", "u", "l", "l">>
      [] v.t = "boolean" ->
            IF v.n = 1 THEN <<"t", "r", "u", "e">> ELSE <<"f", "a", "l", "s", "e">>
      [] v.t = "nan" -> <<"N", "a", "N">>
      [] v.t = "infinity" -> <<"I", "n", "f", "i", "n", "i", "t", "y">>
      [] v.t = "number" -> NumToChars(v.n)

\* Number(value) for a value that is not a string (and not undefined)
NumberOf(v) ==
    CASE v.t = "null" -> Num(0)
      [] v.t = "boolean" -> Num(v.n * 10)
      [] OTHER -> v

\* Boolean(value)
BooleanOf(v) ==
    CASE v.t \in {"undefined", "null", "nan"} -> Bool(FALSE)
      [] v.t = "boolean" -> v
      [] v.t = "number" -> Bool(v.n # 0)
      [] v.t = "string" -> Bool(Len(v.s) > 0)
      [] OTHER -> Bool(TRUE)

----------------------------------------------------------------------------
(* Objects and Maps: sequences of [key, val] entries, keys unique *)

EntHas(es, k) == \E i \in 1..Len(es) : es[i].key = k
EntGet(es, k) == es[CHOOSE i \in 1..Len(es) : es[i].key = k].val
EntSet(es, k, v) ==
    IF EntHas(es, k)
    THEN [i \in 1..Len(es) |-> IF es[i].key = k THEN [key |-> k, val |-> v] ELSE es[i]]
    ELSE Append(es, [key |-> k, val |-> v])
EntDelete(es, k) ==
    LET Keep(e) == e.key # k IN SelectSeq(es, Keep)
EntKeys(es) == {es[i].key : i \in 1..Len(es)}

----------------------------------------------------------------------------
(* ParameterCache: coercion and merge (src/src/parameterCache.ts) *)

\* A ParameterDefinition: initial and checked are Undefined when not declared;
\* hasValues says whether `values` is declared (an array).
Def(name, type, initial, checked, hasValues, values) ==
    [name |-> name, type |-> type, initial |-> initial, checked |-> checked,
     hasValues |-> hasValues, values |-> values]

\* def.values.find(v => String(v) === String(value)); Undefined when none
FindMatch(values, value) ==
    LET hits == {i \in 1..Len(values) : StringOf(values[i]) = StringOf(value)}
    IN  IF hits = {} THEN Undefined
        ELSE values[CHOOSE i \in hits : \A j \in hits : i <= j]

\* a checkbox that takes every non-empty string for true
CoerceCheckboxTruthy(value) ==
    IF TypeOf(value) = "boolean" THEN value ELSE BooleanOf(value)

\* the 'checkbox' branch of coerceValue
CoerceCheckbox(value) ==
    IF TypeOf(value) = "boolean" THEN value
    ELSE IF TypeOf(value) = "string"
         THEN Bool(ToLowerCase(value.s) = <<"t", "r", "u", "e">>)
         ELSE BooleanOf(value)

CoerceInt(value) ==
    IF TypeOf(value) = "number" /\ IsFinite(value) THEN Trunc(value)
    ELSE LET parsed == IF TypeOf(value) = "string" THEN ParseInt(value.s)
                                                   ELSE NumberOf(value)
         IN  IF IsFinite(parsed) THEN Trunc(parsed) ELSE Undefined

CoerceFloat(value) ==
    IF TypeOf(value) = "number" /\ IsFinite(value) THEN value
    ELSE LET parsed == IF TypeOf(value) = "string" THEN ParseFloat(value.s)
                                                   ELSE NumberOf(value)
         IN  IF IsFinite(parsed) THEN parsed ELSE Undefined

CoerceChoice(def, value) ==
    LET match == FindMatch(def.values, value)
    IN  IF match # Undefined THEN match ELSE value

\* coerceValue(def, value); Undefined is "coercion failed"
CoerceValue(def, value) ==
    IF value = Undefined THEN value
    ELSE IF def.type = "checkbox" THEN CoerceCheckbox(value)
    ELSE IF def.type = "int" THEN CoerceInt(value)
    ELSE IF def.type \in {"number", "float", "slider"} THEN CoerceFloat(value)
    ELSE IF def.type = "choice" /\ def.hasValues THEN CoerceChoice(def, value)
    ELSE value

\* def.checked ?? false
CheckedOrFalse(def) ==
    IF def.checked \in {Undefined, Null} THEN Bool(FALSE) ELSE def.checked

\* a first loop that reads `initial` for every type
DefaultStepInitial(m, def) ==
    IF def.initial # Undefined THEN EntSet(m, def.name, def.initial)
    ELSE IF def.type = "choice" /\ def.hasValues /\ Len(def.values) > 0
         THEN EntSet(m, def.name, def.values[1])
    ELSE m

\* one iteration of the first loop: the default of one definition
DefaultStep(m, def) ==
    IF def.type = "checkbox" THEN EntSet(m, def.name, CheckedOrFalse(def))
    ELSE IF def.type = "choice" /\ def.initial # Undefined
         THEN EntSet(m, def.name, def.initial)
    ELSE IF def.type = "choice" /\ def.hasValues /\ Len(def.values) > 0
         THEN EntSet(m, def.name, def.values[1])
    ELSE IF def.initial # Undefined THEN EntSet(m, def.name, def.initial)
    ELSE m

\* a second loop that merges whatever coerceValue returns
OverrideStepUnchecked(m, cached, def) ==
    IF EntHas(cached, def.name)
    THEN EntSet(m, def.name, CoerceValue(def, EntGet(cached, def.name)))
    ELSE m

\* one iteration of the second loop: the cached override of one definition
OverrideStep(m, cached, def) ==
    IF EntHas(cached, def.name)
    THEN LET coerced == CoerceValue(def, EntGet(cached, def.name))
         IN  IF coerced # Undefined THEN EntSet(m, def.name, coerced) ELSE m
    ELSE m

RECURSIVE Defaults(_, _, _)
Defaults(m, definitions, i) ==
    IF i > Len(definitions) THEN m
    ELSE Defaults(DefaultStep(m, definitions[i]), definitions, i + 1)

RECURSIVE Overrides(_, _, _, _)
Overrides(m, cached, definitions, i) ==
    IF i > Len(definitions) THEN m
    ELSE Overrides(OverrideStep(m, cached, definitions[i]), cached, definitions, i + 1)

\* this.cache.get(filePath) || {}
CachedOrEmpty(c, filePath) ==
    IF EntHas(c, filePath) THEN EntGet(c, filePath) ELSE <<>>

\* a merge that starts from a copy of the cached object instead of {}
GetMergedParametersSpread(c, filePath, definitions) ==
    Overrides(Defaults(CachedOrEmpty(c, filePath), definitions, 1),
              CachedOrEmpty(c, filePath), definitions, 1)

\* getMergedParameters(filePath, definitions) on the cache c
GetMergedParameters(c, filePath, definitions) ==
    Overrides(Defaults(<<>>, definitions, 1), CachedOrEmpty(c, filePath),
              definitions, 1)

----------------------------------------------------------------------------
(* ParameterCache: the cache and its persistence *)

RECURSIVE FoldEntries(_, _, _)
\* entries i.. of `pairs` set one after the other into `acc`
FoldEntries(acc, pairs, i) ==
    IF i > Len(pairs) THEN acc
    ELSE FoldEntries(EntSet(acc, pairs[i].key, pairs[i].val), pairs, i + 1)

\* Object.fromEntries(this.cache.entries())
ObjectFromEntries(c) == FoldEntries(<<>>, c, 1)

\* new Map(Object.entries(stored))
MapFromObject(obj) == FoldEntries(<<>>, obj, 1)

\* saveToStorage(): workspaceState.update('hootcad.parameterCache', obj)
SaveToStorage(c) == [present |-> TRUE, obj |-> ObjectFromEntries(c)]

\* loadFromStorage(): the cache a constructor builds over the store st
LoadFromStorage(st) == IF st.present THEN MapFromObject(st.obj) ELSE <<>>

\* get(filePath): found is FALSE for undefined
Get(c, filePath) ==
    [found |-> EntHas(c, filePath), obj |-> CachedOrEmpty(c, filePath)]

RECURSIVE TotalEntries(_, _)
\* the number of cached parameter values over all files, from entry i on
TotalEntries(c, i) ==
    IF i > Len(c) THEN 0 ELSE Len(c[i].val) + TotalEntries(c, i + 1)

----------------------------------------------------------------------------
(* Bounds and input pools *)

MaxEntries == 2    \* cached parameter values over all files
MaxDefs == 2       \* definitions of one script
MaxPolys == 2      \* polygons of one solid
MaxVerts == 5      \* vertices of one polygon
MaxSides == 2      \* sides of one outline
MaxSideVerts == 3  \* vertices of one side
MaxResults == 2    \* geometries in the list main returns
MaxRuns == 3       \* calls of executeAndRender
MaxTimers == 1     \* timers pending when a save without a panel sets one more
MaxTheta == 40000  \* the azimuth of the orbit controls, in units of 1/Scale
MaxLoads == 2      \* outermost calls of loadJscadModuleFromFile
StackLimit == 3    \* nested calls the call stack of the engine holds

Paths == {"/a.jscad", "/b.jscad"}
Names == {"flag", "size"}

cTrue == <<"t", "r", "u", "e">>
cTRUE == <<"T", "R", "U", "E">>
cNotabool == <<"n", "o", "t", "a", "b", "o", "o", "l">>
c3p9 == <<"3", ".", "9">>
cNeg2p5 == <<"-", "2", ".", "5">>

\* the values updateParameter and set store in the life-cycle specification
SmallPool == {Bool(TRUE), Str(cNotabool), Num(39)}

\* the cached values the merge is explored over
ValuePool ==
    {Undefined, Null, Bool(TRUE), Bool(FALSE), Num(39), Num(0), Num(-25), NaN,
     Infinity, Str(cTrue), Str(cTRUE), Str(cNotabool), Str(c3p9), Str(cNeg2p5),
     Str(<<>>), Str(<<"b">>)}

SetObjs ==
    {<<>>,
     <<[key |-> "flag", val |-> Bool(TRUE)]>>,
     <<[key |-> "size", val |-> Num(39)], [key |-> "flag", val |-> Str(cNotabool)]>>}

NoValues == <<>>
ChoiceValues ==
    {<<>>, <<Str(<<"a">>), Str(<<"b">>)>>, <<Num(0), Num(39), Str(c3p9)>>}

FlagDefs == <<Def("flag", "checkbox", Undefined, Undefined, FALSE, NoValues)>>

FlagDefPool ==
    {Def("flag", "checkbox", i, c, FALSE, NoValues) :
        i \in {Undefined, Bool(TRUE)}, c \in {Undefined, Bool(TRUE), Bool(FALSE)}}
    \cup {Def("flag", t, i, Undefined, FALSE, NoValues) :
        t \in {"int", "number", "float", "slider", "text"}, i \in {Undefined, Num(50)}}
    \cup {Def("flag", "choice", i, Undefined, FALSE, NoValues) :
        i \in {Undefined, Str(<<"b">>)}}
    \cup {Def("flag", "choice", i, Undefined, TRUE, vs) :
        i \in {Undefined, Str(<<"b">>)}, vs \in ChoiceValues}

SizeDefPool ==
    {Def("size", "int", Undefined, Undefined, FALSE, NoValues),
     Def("size", "number", Num(50), Undefined, FALSE, NoValues)}

\* definition lists with unique names (the ParameterDefinition invariant)
DefLists ==
    {l \in {<<>>} \cup {<<f>> : f \in FlagDefPool} \cup {<<z>> : z \in SizeDefPool}
            \cup {<<f, z>> : f \in FlagDefPool, z \in SizeDefPool} :
        Len(l) <= MaxDefs}

\* the definition lists of the scripts of the life-cycle specification
LifeDefLists ==
    {FlagDefs,
     <<Def("size", "int", Undefined, Undefined, FALSE, NoValues)>>,
     <<Def("flag", "checkbox", Undefined, Bool(TRUE), FALSE, NoValues),
       Def("size", "number", Num(50), Undefined, FALSE, NoValues)>>}

\* the cached objects of one file the merge is explored over
MergeObjs ==
    {<<>>} \cup {<<[key |-> "flag", val |-> v]>> : v \in ValuePool}
    \cup {<<[key |-> "size", val |-> w]>> : w \in SmallPool}
    \cup {<<[key |-> "flag", val |-> v], [key |-> "size", val |-> w]>> :
            v \in ValuePool, w \in SmallPool}

NoOp ==
    [name |-> "new", path |-> "", pname |-> "", value |-> Undefined,
     old |-> Undefined, obj |-> <<>>, defs |-> <<>>]

----------------------------------------------------------------------------
(* ParameterCache operations *)

OtherIdle == UNCHANGED <<resolveVars, convVars, engineVars, extVars, restVars>>

\* set(filePath, values)
Set(filePath, values) ==
    /\ TotalEntries(EntSet(cache, filePath, values), 1) <= MaxEntries
    /\ cache' = EntSet(cache, filePath, values)
    /\ store' = SaveToStorage(cache')
    /\ merged' = <<>>
    /\ op' = [NoOp EXCEPT !.name = "set", !.path = filePath, !.obj = values]
    /\ OtherIdle

\* an updateParameter that starts from an empty mapping instead of the
\* file's current one
UpdateParameterFresh(filePath, paramName, value) ==
    LET before == CachedOrEmpty(cache, filePath)
        current == EntSet(<<>>, paramName, value)
        old == IF EntHas(before, paramName) THEN EntGet(before, paramName)
                                            ELSE Undefined
    IN  /\ TotalEntries(EntSet(cache, filePath, current), 1) <= MaxEntries
        /\ cache' = EntSet(cache, filePath, current)
        /\ store' = SaveToStorage(cache')
        /\ merged' = <<>>
        /\ op' = [NoOp EXCEPT !.name = "updateParameter", !.path = filePath,
                              !.pname = paramName, !.value = value,
                              !.old = old]
        /\ OtherIdle

\* updateParameter(filePath, paramName, value)
UpdateParameter(filePath, paramName, value) ==
    LET before == CachedOrEmpty(cache, filePath)
        current == EntSet(before, paramName, value)
        old == IF EntHas(before, paramName) THEN EntGet(before, paramName)
                                            ELSE Undefined
    IN  /\ TotalEntries(EntSet(cache, filePath, current), 1) <= MaxEntries
        /\ cache' = EntSet(cache, filePath, current)
        /\ store' = SaveToStorage(cache')
        /\ merged' = <<>>
        /\ op' = [NoOp EXCEPT !.name = "updateParameter", !.path = filePath,
                              !.pname = paramName, !.value = value,
                              !.old = old]
        /\ OtherIdle

\* a clear that forgets saveToStorage
ClearUnsaved(filePath) ==
    /\ cache' = EntDelete(cache, filePath)
    /\ store' = store
    /\ merged' = <<>>
    /\ op' = [NoOp EXCEPT !.name = "clear", !.path = filePath]
    /\ OtherIdle

\* clear(filePath)
Clear(filePath) ==
    /\ cache' = EntDelete(cache, filePath)
    /\ store' = SaveToStorage(cache')
    /\ merged' = <<>>
    /\ op' = [NoOp EXCEPT !.name = "clear", !.path = filePath]
    /\ OtherIdle

\* clearAll()
ClearAll ==
    /\ cache' = <<>>
    /\ store' = SaveToStorage(cache')
    /\ merged' = <<>>
    /\ op' = [NoOp EXCEPT !.name = "clearAll"]
    /\ OtherIdle

\* new ParameterCache(context) over the store as it is
Construct ==
    /\ cache' = LoadFromStorage(store)
    /\ store' = store
    /\ merged' = <<>>
    /\ op' = NoOp
    /\ OtherIdle

\* the definitions whose cached value of the file fails coercion
FailingCoercion(c, filePath, definitions) ==
    {i \in 1..Len(definitions) :
        /\ EntHas(CachedOrEmpty(c, filePath), definitions[i].name)
        /\ EntGet(CachedOrEmpty(c, filePath), definitions[i].name) # Undefined
        /\ CoerceValue(definitions[i],
                       EntGet(CachedOrEmpty(c, filePath), definitions[i].name))
              = Undefined}

\* a getMergedParameters that forgets the file's cached values when one of
\* them fails coercion
GetMergedPruning(filePath, definitions) ==
    /\ merged' = GetMergedParameters(cache, filePath, definitions)
    /\ op' = [NoOp EXCEPT !.name = "getMergedParameters", !.path = filePath,
                          !.defs = definitions]
    /\ cache' = IF FailingCoercion(cache, filePath, definitions) # {}
                THEN EntDelete(cache, filePath) ELSE cache
    /\ store' = SaveToStorage(cache')
    /\ OtherIdle

\* getMergedParameters(filePath, definitions)
GetMerged(filePath, definitions) ==
    /\ merged' = GetMergedParameters(cache, filePath, definitions)
    /\ op' = [NoOp EXCEPT !.name = "getMergedParameters", !.path = filePath,
                          !.defs = definitions]
    /\ UNCHANGED <<cache, store>>
    /\ OtherIdle

----------------------------------------------------------------------------
(* Entrypoint resolution (jscadEngine: src/unnamed/part_001) *)

cDotJscad == <<".", "j", "s", "c", "a", "d">>
cPackageJson == <<"p", "a", "c", "k", "a", "g", "e", ".", "j", "s", "o", "n">>
cIndexJscad == <<"i", "n", "d", "e", "x", ".", "j", "s", "c", "a", "d">>
cRootW == <<"/", "w">>
cRootV == <<"/", "v">>
cMainRel == <<"m", ".", "j", "s", "c", "a", "d">>
cGoneRel == <<"g", ".", "j", "s", "c", "a", "d">>
cLibRel == <<"l", ".", "j", "s">>
cEditorJscad == <<"/", "e", "/", "a", ".", "j", "s", "c", "a", "d">>
cEditorTxt == <<"/", "e", "/", "a", ".", "t", "x", "t">>
cOtherJscad == <<"/", "e", "/", "b", ".", "j", "s", "c", "a", "d">>

\* String.prototype.endsWith
EndsWith(chars, suffix) ==
    /\ Len(chars) >= Len(suffix)
    /\ SubSeq(chars, Len(chars) - Len(suffix) + 1, Len(chars)) = suffix

\* path.join(root, name) for a root and a name without '.', '..' or empty
\* segments
PathJoin(root, name) ==
    IF Len(root) > 0 /\ root[Len(root)] = "/" THEN root \o name
    ELSE root \o <<"/">> \o name

\* path.resolve(root, name): an absolute name wins over the root
PathResolve(root, name) ==
    IF Len(name) > 0 /\ name[1] = "/" THEN name ELSE PathJoin(root, name)

\* a value in a condition: if (value)
Truthy(v) == BooleanOf(v) = Bool(TRUE)

\* a ?? b
Coalesce(a, b) == IF a \in {Undefined, Null} THEN b ELSE a

NoEntry == [kind |-> "null", filePath |-> <<>>, source |-> ""]
Threw == [kind |-> "throw", filePath |-> <<>>, source |-> ""]
NoMatch == [kind |-> "none", filePath |-> <<>>, source |-> ""]
Pending == [kind |-> "pending", filePath |-> <<>>, source |-> ""]
Entry(filePath, source) == [kind |-> "entry", filePath |-> filePath, source |-> source]

\* resolveFromActiveEditor(activeEditorFilePath)
ResolveFromActiveEditor(in) ==
    LET editorFilePath == Coalesce(in.optEditor, in.vsEditor)
    IN  IF Truthy(editorFilePath) /\ EndsWith(editorFilePath.s, cDotJscad)
        THEN Entry(editorFilePath.s, "active-editor")
        ELSE NoEntry

\* the body of the try block: JSON.parse(readFileSync(package.json)) and the
\* test of its main; reading or parsing may throw, and so does reading the
\* main of a manifest that is the JSON value null
ManifestMain(root, in) ==
    IF in.manifest.kind \in {"unreadable", "invalid", "null"} THEN Threw
    ELSE LET main == in.manifest.main
             mainPath == PathResolve(root, main.s)
         IN  IF Truthy(main) /\ TypeOf(main) = "string"
                 /\ EndsWith(mainPath, cDotJscad) /\ mainPath \in in.files
             THEN Entry(mainPath, "package.json")
             ELSE NoMatch

\* the manifest step without its try / catch
TryManifestUncaught(root, in) == ManifestMain(root, in)

\* try { ... } catch (error) { /* continue to next option */ }
TryManifest(root, in) ==
    LET r == ManifestMain(root, in)
    IN  IF r.kind = "throw" THEN NoMatch ELSE r

\* a resolver that looks for index.jscad before the manifest
ResolveIndexFirst(in) ==
    LET workspaceRoot == Coalesce(in.optRoot, in.vsRoot)
    IN  IF ~Truthy(workspaceRoot) THEN ResolveFromActiveEditor(in)
        ELSE IF PathJoin(workspaceRoot.s, cIndexJscad) \in in.files
             THEN Entry(PathJoin(workspaceRoot.s, cIndexJscad), "index.jscad")
        ELSE LET m == IF PathJoin(workspaceRoot.s, cPackageJson) \in in.files
                      THEN TryManifest(workspaceRoot.s, in) ELSE NoMatch
             IN  IF m.kind \in {"entry", "throw"} THEN m
                 ELSE ResolveFromActiveEditor(in)

\* resolveJscadEntrypointWithOptions(options); an exception that leaves the
\* manifest step leaves the function
ResolveJscadEntrypointWithOptions(in) ==
    LET workspaceRoot == Coalesce(in.optRoot, in.vsRoot)
    IN  IF ~Truthy(workspaceRoot) THEN ResolveFromActiveEditor(in)
        ELSE LET m == IF PathJoin(workspaceRoot.s, cPackageJson) \in in.files
                      THEN TryManifest(workspaceRoot.s, in) ELSE NoMatch
             IN  IF m.kind \in {"entry", "throw"} THEN m
                 ELSE IF PathJoin(workspaceRoot.s, cIndexJscad) \in in.files
                      THEN Entry(PathJoin(workspaceRoot.s, cIndexJscad), "index.jscad")
                 ELSE ResolveFromActiveEditor(in)

\* what package.json holds: unreadable, not JSON, the JSON value null, or an
\* object with a main (Undefined: no main)
Manifests ==
    {[kind |-> k, main |-> Undefined] : k \in {"unreadable", "invalid", "null"}}
    \cup {[kind |-> "object", main |-> m] :
            m \in {Undefined, Str(<<>>), Num(10), Bool(TRUE), Str(cMainRel),
                   Str(cGoneRel), Str(cLibRel), Str(PathJoin(cRootW, cMainRel))}}

NoManifest == [kind |-> "absent", main |-> Undefined]

FilePool ==
    {PathJoin(cRootW, cPackageJson), PathJoin(cRootW, cIndexJscad),
     PathJoin(cRootW, cMainRel), PathJoin(cRootW, cLibRel),
     PathJoin(cRootV, cIndexJscad)}

\* the options, the editor state and the disk of one call
ResolveInputs ==
    {in \in [optRoot : {Undefined, Str(<<>>), Str(cRootW)},
             vsRoot : {Undefined, Str(cRootV)},
             optEditor : {Undefined, Null, Str(<<>>), Str(cEditorJscad), Str(cEditorTxt)},
             vsEditor : {Undefined, Str(cOtherJscad)},
             manifest : Manifests \cup {NoManifest},
             files : SUBSET FilePool] :
        (in.manifest = NoManifest) <=> (PathJoin(cRootW, cPackageJson) \notin in.files)}

IdleInput ==
    [optRoot |-> Undefined, vsRoot |-> Undefined, optEditor |-> Undefined,
     vsEditor |-> Undefined, manifest |-> NoManifest, files |-> {}]

\* one call of resolveJscadEntrypointWithOptions
Resolve ==
    /\ rsOut = Pending
    /\ rsOut' = ResolveJscadEntrypointWithOptions(rsIn)
    /\ UNCHANGED <<rsIn, cacheVars, convVars, engineVars, extVars, restVars>>

----------------------------------------------------------------------------
(* Buffer conversion (src/src/threeJsConverter.ts) *)

\* a loop that starts at i = 0
TriangulatePolygonFromZero(vertices) ==
    IF Len(vertices) < 3 THEN <<>>
    ELSE [i \in 1..(Len(vertices) - 1) |-> <<0, i - 1, i>>]

\* triangulatePolygon(vertices): the fan (0, i, i+1) for i = 1 .. length-2
TriangulatePolygon(vertices) ==
    IF Len(vertices) < 3 THEN <<>>
    ELSE [i \in 1..(Len(vertices) - 2) |-> <<0, i, i + 1>>]

\* the cross product of the edges v1-v0 and v2-v0
FaceCross(vertices) ==
    LET v0 == vertices[1]
        v1 == vertices[2]
        v2 == vertices[3]
        e1 == <<v1[1] - v0[1], v1[2] - v0[2], v1[3] - v0[3]>>
        e2 == <<v2[1] - v0[1], v2[2] - v0[2], v2[3] - v0[3]>>
    IN  <<e1[2] * e2[3] - e1[3] * e2[2],
          e1[3] * e2[1] - e1[1] * e2[3],
          e1[1] * e2[2] - e1[2] * e2[1]>>

\* a face normal that is left at the length of the cross product
FaceNormalUnscaled(vertices) ==
    [i \in 1..3 |-> [num |-> FaceCross(vertices)[i], den2 |-> 1]]

\* the face normal: component i is num / sqrt(den2), where den2 is the squared
\* length of the cross product; a cross product of length 0 is left as it is
FaceNormal(vertices) ==
    LET c == FaceCross(vertices)
        len2 == c[1] * c[1] + c[2] * c[2] + c[3] * c[3]
    IN  [i \in 1..3 |-> [num |-> c[i], den2 |-> IF len2 > 0 THEN len2 ELSE 1]]

RECURSIVE Flatten(_, _)
\* the sequences of `parts` from i on, one after the other
Flatten(parts, i) ==
    IF i > Len(parts) THEN <<>> ELSE parts[i] \o Flatten(parts, i + 1)

\* the positions pushed for one triangle: 3 numbers for each of its vertices
TrianglePositions(vertices, triangle) ==
    Flatten([k \in 1..Len(triangle) |-> vertices[triangle[k] + 1]], 1)

\* the normals pushed for one triangle: the face normal for each vertex
TriangleNormals(normal, triangle) ==
    Flatten([k \in 1..Len(triangle) |-> normal], 1)

\* a conversion that pushes one normal for a triangle instead of one a vertex
PolygonBuffersFaceOnce(vertices) ==
    IF Len(vertices) < 3 THEN [positions |-> <<>>, normals |-> <<>>]
    ELSE LET triangles == TriangulatePolygon(vertices)
         IN  [positions |->
                 Flatten([t \in 1..Len(triangles) |->
                             TrianglePositions(vertices, triangles[t])], 1),
              normals |->
                 Flatten([t \in 1..Len(triangles) |-> FaceNormal(vertices)], 1)]

\* one iteration of the loop over geom3.polygons: what one polygon appends
PolygonBuffers(vertices) ==
    IF Len(vertices) < 3 THEN [positions |-> <<>>, normals |-> <<>>]
    ELSE LET normal == FaceNormal(vertices)
             triangles == TriangulatePolygon(vertices)
         IN  [positions |->
                 Flatten([t \in 1..Len(triangles) |->
                             TrianglePositions(vertices, triangles[t])], 1),
              normals |->
                 Flatten([t \in 1..Len(triangles) |->
                             TriangleNormals(normal, triangles[t])], 1)]

\* Math.fround on an integer of magnitude below 2^25: exact up to 2^24, and
\* above it the nearest even integer, a tie going to the multiple of 4
Fround(x) ==
    LET a == IF x < 0 THEN 0 - x ELSE x
        r == IF a <= 16777216 \/ a % 2 = 0 THEN a
             ELSE IF (a + 1) % 4 = 0 THEN a + 1 ELSE a - 1
    IN  IF x < 0 THEN 0 - r ELSE r

\* new Float32Array(numbers): every number stored in single precision
Float32Array(numbers) == [i \in 1..Len(numbers) |-> Fround(numbers[i])]

\* convertGeom3ToBufferGeometry(geom3); the components of the normals stay
\* as the quotients the loop computed
ConvertGeom3ToBufferGeometry(g) ==
    [done |-> TRUE,
     positions |-> Float32Array(Flatten([i \in 1..Len(g.polygons) |->
                               PolygonBuffers(g.polygons[i]).positions], 1)),
     normals |-> Flatten([i \in 1..Len(g.polygons) |->
                             PolygonBuffers(g.polygons[i]).normals], 1),
     hasNormals |-> TRUE,
     hasIndices |-> FALSE,
     transforms |-> g.transforms]

\* an end point that keeps the z of a point that has one
EndPointKeepZ(point) ==
    <<point[1], point[2], IF Len(point) >= 3 THEN point[3] ELSE 0>>

\* an end point of a side as it is pushed: x, y and the constant 0
EndPoint(point) == <<point[1], point[2], 0>>

\* a loop body that takes the first two vertices of any side that has them
SidePositionsAtLeastTwo(side) ==
    IF Len(side) >= 2 THEN EndPoint(side[1]) \o EndPoint(side[2]) ELSE <<>>

\* one iteration of the loop over geom2.sides: what one side appends
SidePositions(side) ==
    IF Len(side) = 2 THEN EndPoint(side[1]) \o EndPoint(side[2]) ELSE <<>>

\* a conversion that returns the positions without the transforms
ConvertGeom2WithoutTransforms(g) ==
    [done |-> TRUE,
     positions |-> Float32Array(Flatten([i \in 1..Len(g.sides) |->
                                            SidePositions(g.sides[i])], 1)),
     normals |-> <<>>,
     hasNormals |-> FALSE,
     hasIndices |-> FALSE,
     transforms |-> "absent"]

\* convertGeom2ToLineGeometry(geom2): positions and transforms, nothing else
ConvertGeom2ToLineGeometry(g) ==
    [done |-> TRUE,
     positions |-> Float32Array(Flatten([i \in 1..Len(g.sides) |->
                                            SidePositions(g.sides[i])], 1)),
     normals |-> <<>>,
     hasNormals |-> FALSE,
     hasIndices |-> FALSE,
     transforms |-> g.transforms]

\* the points the polygons of the model are cut from
Ring ==
    <<<<0, 0, 0>>, <<1, 0, 0>>, <<2, 0, 0>>, <<2, 2, 0>>, <<0, 2, 1>>, <<0, 0, 2>>>>

\* the polygon of n vertices that starts after `start` on the ring
Poly(start, n) == [i \in 1..n |-> Ring[((start + i - 1) % Len(Ring)) + 1]]

\* the unit square in the plane z = 0
UnitSquare == <<<<0, 0, 0>>, <<1, 0, 0>>, <<1, 1, 0>>, <<0, 1, 0>>>>

PolyPool == {Poly(start, n) : start \in 0..2, n \in 0..MaxVerts} \cup {UnitSquare}

RECURSIVE SeqsUpTo(_, _)
\* the sequences over S of length at most n
SeqsUpTo(S, n) ==
    IF n = 0 THEN {<<>>}
    ELSE SeqsUpTo(S, n - 1)
         \cup {Append(q, x) : q \in {r \in SeqsUpTo(S, n - 1) : Len(r) = n - 1}, x \in S}

Geoms ==
    [polygons : SeqsUpTo(PolyPool, MaxPolys), transforms : {"absent", "identity"}]

\* the points the sides of the model are cut from: the third has an x that
\* single precision cannot hold, the fourth carries a z
Ring2 == <<<<0, 0>>, <<1, 2>>, <<16777217, 3>>, <<4, 1, 5>>>>

\* the side of n vertices that starts after `start` on the ring
Side(start, n) == [i \in 1..n |-> Ring2[((start + i - 1) % Len(Ring2)) + 1]]

SidePool == {Side(start, n) : start \in 0..3, n \in 0..MaxSideVerts}

Geoms2 ==
    [sides : SeqsUpTo(SidePool, MaxSides), transforms : {"absent", "identity"}]

NoGeom == [polygons |-> <<>>, transforms |-> "absent"]
NoGeom2 == [sides |-> <<>>, transforms |-> "absent"]

\* a solid of a two-vertex polygon and a quadrilateral, with a transform
MixedGeom == [polygons |-> <<Poly(0, 2), Poly(0, 4)>>, transforms |-> "identity"]
NoBuffer ==
    [done |-> FALSE, positions |-> <<>>, normals |-> <<>>, hasNormals |-> FALSE,
     hasIndices |-> FALSE, transforms |-> "absent"]
NoTriangles == [called |-> FALSE, vertices |-> <<>>, triangles |-> <<>>]

\* one call of convertGeom3ToBufferGeometry on the solid
ConvertGeom3 ==
    /\ ~buf.done
    /\ buf' = ConvertGeom3ToBufferGeometry(geom)
    /\ UNCHANGED <<geom, tris, geom2, buf2, cacheVars, resolveVars, engineVars, extVars, restVars>>

\* one call of convertGeom2ToLineGeometry on the outline
ConvertGeom2 ==
    /\ ~buf2.done
    /\ buf2' = ConvertGeom2ToLineGeometry(geom2)
    /\ UNCHANGED <<geom, buf, tris, geom2, cacheVars, resolveVars, engineVars, extVars, restVars>>

\* one call of triangulatePolygon on a polygon of the solid
Triangulate(i) ==
    /\ ~tris.called
    /\ tris' = [called |-> TRUE, vertices |-> geom.polygons[i],
                triangles |-> TriangulatePolygon(geom.polygons[i])]
    /\ UNCHANGED <<geom, buf, geom2, buf2, cacheVars, resolveVars, engineVars, extVars, restVars>>

----------------------------------------------------------------------------
(* Script execution (jscadEngine: src/unnamed/part_001) *)

\* A value main returns, or an item of the list it returns: its type, whether
\* it is truthy, and the properties the engine reads. A property is "absent",
\* a "number", or one of two arrays.
GeomVal(t, truthy, polygons, sides, transforms, color) ==
    [t |-> t, truthy |-> truthy, polygons |-> polygons, sides |-> sides,
     transforms |-> transforms, color |-> color]

\* a value without any of the properties
Plain(t, truthy) == GeomVal(t, truthy, "absent", "absent", "absent", "absent")

\* Array.isArray on a property
IsArray(property) == property \in {"arrayA", "arrayB"}

\* an error object: its name and its message
Err(name, message) == [name |-> name, message |-> message]
NoError == Err("", "")
MustExportMain == Err("Error", "JSCAD file must export a main() function")
KeysOfNullish == Err("TypeError", "Cannot convert undefined or null to object")
PropertyOfNullish == Err("TypeError", "Cannot read properties of null")
LoadErrors ==
    [ENOENT |-> Err("Error", "ENOENT: no such file or directory"),
     SyntaxError |-> Err("SyntaxError", "Unexpected token"),
     throws |-> Err("Error", "thrown at load")]
MainError == Err("RangeError", "thrown by main")
AsyncError == Err("Error", "rejected by the script")

\* loadJscadModuleFromFile: reads the file, compiles it, runs it; any of the
\* three can throw, and otherwise the module's exports are returned
LoadJscadModuleFromFile(s) ==
    IF s.load = "ok" THEN [threw |-> FALSE, error |-> NoError]
    ELSE [threw |-> TRUE, error |-> LoadErrors[s.load]]

\* the entries of executeJscadFile's result
NoData == Plain("unset", FALSE)
EntityOf(type, polygons, sides, transforms, color, data) ==
    [type |-> type, polygons |-> polygons, sides |-> sides,
     transforms |-> transforms, color |-> color, data |-> data]

\* the callback of geometries.map: the entry for one geometry, or the
\* TypeError of Object.keys on undefined or null
SerializeGeometry(g) ==
    LET hasPolygons == g.truthy /\ IsArray(g.polygons)
        hasSides == g.truthy /\ IsArray(g.sides)
    IN  IF hasPolygons
        THEN [threw |-> FALSE, error |-> NoError,
              entry |-> EntityOf("geom3", g.polygons, "unset", g.transforms,
                                 g.color, NoData)]
        ELSE IF hasSides
        THEN [threw |-> FALSE, error |-> NoError,
              entry |-> EntityOf("geom2", "unset", g.sides, g.transforms,
                                 g.color, NoData)]
        ELSE IF g.t \in {"undefined", "null"}
        THEN [threw |-> TRUE, error |-> KeysOfNullish,
              entry |-> EntityOf("none", "unset", "unset", "unset", "unset", NoData)]
        ELSE [threw |-> FALSE, error |-> NoError,
              entry |-> EntityOf("unknown", "unset", "unset", "unset", "unset", g)]

\* the outcome of an executeJscadFile call: the promise rejects with `error`
\* (threw) or resolves to the list `result` (returned)
NoExecution ==
    [called |-> FALSE, threw |-> FALSE, returned |-> FALSE, error |-> NoError,
     result |-> <<>>, mainCalls |-> 0, mainArg |-> <<>>]
Rejected(error, mainCalls, mainArg) ==
    [NoExecution EXCEPT !.called = TRUE, !.threw = TRUE, !.error = error,
                        !.mainCalls = mainCalls, !.mainArg = mainArg]
Fulfilled(result, mainArg) ==
    [NoExecution EXCEPT !.called = TRUE, !.returned = TRUE, !.result = result,
                        !.mainCalls = 1, !.mainArg = mainArg]

\* the first error the callback throws over the geometries from i on
RECURSIVE FirstThrown(_, _)
FirstThrown(geometries, i) ==
    IF i > Len(geometries) THEN NoError
    ELSE IF SerializeGeometry(geometries[i]).threw
         THEN SerializeGeometry(geometries[i]).error
         ELSE FirstThrown(geometries, i + 1)

\* an executeJscadFile that takes a script without a main function for a
\* script without geometries
ExecuteJscadFileLenient(s, params) ==
    IF LoadJscadModuleFromFile(s).threw
    THEN Rejected(LoadJscadModuleFromFile(s).error, 0, <<>>)
    ELSE Fulfilled(<<>>, <<>>)

\* an executeJscadFile whose catch block throws an error of its own
ExecuteJscadFileWrapped(s, params) ==
    LET loaded == LoadJscadModuleFromFile(s)
        mainParams == IF params.given THEN params.obj ELSE <<>>
        geometries == s.main.result.items
        wrapped == Err("Error", "JSCAD execution failed")
    IN  IF loaded.threw THEN Rejected(wrapped, 0, <<>>)
        ELSE IF s.exports = "null" THEN Rejected(wrapped, 0, <<>>)
        ELSE IF s.main.kind # "function" THEN Rejected(wrapped, 0, <<>>)
        ELSE IF s.main.throws THEN Rejected(wrapped, 1, mainParams)
        ELSE IF FirstThrown(geometries, 1) # NoError
             THEN Rejected(wrapped, 1, mainParams)
        ELSE Fulfilled([i \in 1..Len(geometries) |->
                           SerializeGeometry(geometries[i]).entry], mainParams)

\* executeJscadFile(filePath, outputChannel, params); params is
\* [given, obj], not given standing for undefined
ExecuteJscadFile(s, params) ==
    LET loaded == LoadJscadModuleFromFile(s)
        mainParams == IF params.given THEN params.obj ELSE <<>>
        geometries == s.main.result.items
    IN  IF loaded.threw THEN Rejected(loaded.error, 0, <<>>)
        ELSE IF s.exports = "null" THEN Rejected(PropertyOfNullish, 0, <<>>)
        ELSE IF s.main.kind # "function" THEN Rejected(MustExportMain, 0, <<>>)
        ELSE IF s.main.throws THEN Rejected(MainError, 1, mainParams)
        ELSE IF FirstThrown(geometries, 1) # NoError
             THEN Rejected(FirstThrown(geometries, 1), 1, mainParams)
        ELSE Fulfilled([i \in 1..Len(geometries) |->
                           SerializeGeometry(geometries[i]).entry], mainParams)

\* what a getParameterDefinitions function of a script returns
DefsValue(t, defs) == [t |-> t, defs |-> defs]
EmptyList == DefsValue("array", <<>>)

NoDefinitions ==
    [called |-> FALSE, threw |-> FALSE, error |-> NoError, result |-> EmptyList]
DefinitionsOf(result) == [NoDefinitions EXCEPT !.called = TRUE, !.result = result]

DefinitionsThrown(error) ==
    [NoDefinitions EXCEPT !.called = TRUE, !.threw = TRUE, !.error = error]

\* the try block of getParameterDefinitions: what it returns or throws. The
\* length is read from what the script's function returned: from the value,
\* or from the promise when the function is asynchronous.
TryGetParameterDefinitions(s) ==
    LET loaded == LoadJscadModuleFromFile(s)
    IN  IF loaded.threw THEN DefinitionsThrown(loaded.error)
        ELSE IF s.exports = "null" THEN DefinitionsThrown(PropertyOfNullish)
        ELSE IF s.gpd.kind # "function" THEN DefinitionsOf(EmptyList)
        ELSE IF s.gpd.throws THEN DefinitionsThrown(MainError)
        ELSE IF s.gpd.settles = "sync" /\ s.gpd.result.t \in {"undefined", "null"}
             THEN DefinitionsThrown(PropertyOfNullish)
        ELSE DefinitionsOf(s.gpd.result)

\* getParameterDefinitions(filePath, outputChannel): the outcome of the
\* promise it returns. What the try block throws is caught and gives the empty
\* list. A promise the script's function returned is returned from the try
\* block without an await, so the outcome is that promise's: its value, or
\* its rejection, which the catch block does not see.
GetParameterDefinitions(s) ==
    LET tried == TryGetParameterDefinitions(s)
    IN  IF tried.threw THEN DefinitionsOf(EmptyList)
        ELSE IF s.gpd.kind = "function" /\ s.gpd.settles = "rejects"
             THEN DefinitionsThrown(AsyncError)
        ELSE tried

\* the values of the model: undefined, null, 0, a string, a list, and objects
\* with and without array-valued polygons and sides
GeomValues ==
    {Plain("undefined", FALSE), Plain("null", FALSE), Plain("number", FALSE),
     Plain("string", TRUE), Plain("array", TRUE), Plain("object", TRUE),
     GeomVal("object", TRUE, "arrayA", "absent", "identity", "red"),
     GeomVal("object", TRUE, "absent", "arrayB", "absent", "absent"),
     GeomVal("object", TRUE, "arrayA", "arrayB", "absent", "red"),
     GeomVal("object", TRUE, "number", "arrayA", "identity", "absent"),
     GeomVal("object", TRUE, "number", "absent", "absent", "absent")}

\* what main returns: a list of values, or a value that is not a list and
\* that executeJscadFile wraps into one
MainResults ==
    [isArray : {FALSE}, items : {<<g>> : g \in GeomValues}]
    \cup [isArray : {TRUE}, items : SeqsUpTo(GeomValues, MaxResults)]

NoResult == [isArray |-> FALSE, items |-> <<>>]

\* the `main` export: absent, a value that is not a function, a function that
\* throws, a function that returns
Mains ==
    {[kind |-> k, throws |-> FALSE, result |-> NoResult] : k \in {"absent", "value"}}
    \cup {[kind |-> "function", throws |-> TRUE, result |-> NoResult]}
    \cup [kind : {"function"}, throws : {FALSE}, result : MainResults]

\* the `getParameterDefinitions` export, likewise; a function that returns
\* does so at once ("sync") or returns a promise that fulfils with the result
\* or rejects
DefsResults ==
    {DefsValue("undefined", <<>>), DefsValue("null", <<>>),
     DefsValue("number", <<>>), EmptyList, DefsValue("array", FlagDefs)}
Gpds ==
    {[kind |-> k, throws |-> FALSE, settles |-> "sync", result |-> EmptyList] :
        k \in {"absent", "value"}}
    \cup {[kind |-> "function", throws |-> TRUE, settles |-> "sync",
           result |-> EmptyList]}
    \cup [kind : {"function"}, throws : {FALSE}, settles : {"sync", "fulfils"},
          result : DefsResults]
    \cup {[kind |-> "function", throws |-> FALSE, settles |-> "rejects",
           result |-> EmptyList]}

IdleScript ==
    [load |-> "ok", exports |-> "object",
     main |-> [kind |-> "absent", throws |-> FALSE, result |-> NoResult],
     gpd |-> [kind |-> "absent", throws |-> FALSE, settles |-> "sync",
              result |-> EmptyList]]

\* the scripts: those that fail to load, one that sets module.exports to
\* null, and those that export any main and any getParameterDefinitions
Scripts ==
    {[IdleScript EXCEPT !.load = l] : l \in {"ENOENT", "SyntaxError", "throws"}}
    \cup {[IdleScript EXCEPT !.exports = "null"]}
    \cup [load : {"ok"}, exports : {"object"}, main : Mains, gpd : Gpds]

\* the params argument: undefined, or an object
ParamsPool ==
    {[given |-> FALSE, obj |-> <<>>],
     [given |-> TRUE, obj |-> <<[key |-> "flag", val |-> Bool(TRUE)]>>]}

\* one call of executeJscadFile on the script
Execute(params) ==
    /\ ~ex.called
    /\ ex' = ExecuteJscadFile(script, params)
    /\ UNCHANGED <<script, pd, cacheVars, resolveVars, convVars, extVars, restVars>>

\* one call of getParameterDefinitions on the script
GetDefinitions ==
    /\ ~pd.called
    /\ pd' = GetParameterDefinitions(script)
    /\ UNCHANGED <<script, ex, cacheVars, resolveVars, convVars, extVars, restVars>>

----------------------------------------------------------------------------
(* The extension (src/unnamed/part_000) and the client script of its preview
   (src/unnamed/part_001) *)

\* the entrypoint: the one .jscad file of the workspace
TheFile == "/a.jscad"

\* updateParameter on the cache c: the cache it leaves
WithParameter(c, filePath, paramName, value) ==
    EntSet(c, filePath, EntSet(CachedOrEmpty(c, filePath), paramName, value))

\* A message to the preview. `run` is not a field of the message: it names
\* the executeAndRender call that posted it.
Message(type, run, entities, definitions, values, message) ==
    [type |-> type, run |-> run, entities |-> entities,
     definitions |-> definitions, values |-> values, filePath |-> TheFile,
     message |-> message]

\* a catch block that posts its message twice
FailureMessagesTwice(run, error, open) ==
    IF open
    THEN <<Message("error", run, <<>>, <<>>, <<>>, error.message),
           Message("error", run, <<>>, <<>>, <<>>, error.message)>>
    ELSE <<>>

\* the catch block of executeAndRender: the message it posts when the panel
\* is open
FailureMessages(run, error, open) ==
    IF open THEN <<Message("error", run, <<>>, <<>>, <<>>, error.message)>>
    ELSE <<>>

NotIterable == Err("TypeError", "definitions is not iterable")

\* the client script before it ran; base is the number of messages posted
\* before the panel was created, seen the number handled or dropped
NoView ==
    [loaded |-> FALSE, base |-> 0, seen |-> 0, meshes |-> <<>>,
     errorShown |-> FALSE, errorText |-> "", paramUI |-> FALSE]

Drawable(entity) == entity.type \in {"geom3", "geom2"}

\* the object renderGeometries adds to the mesh group for an entity
MeshOf(entity) ==
    [kind |-> IF entity.type = "geom3" THEN "Mesh" ELSE "LineSegments",
     polygons |-> entity.polygons, sides |-> entity.sides,
     transforms |-> entity.transforms, color |-> entity.color]

\* renderGeometries(geometries): the scene is cleared and holds one object
\* for each geom3 and geom2 entity
RenderGeometries(geometries) ==
    [i \in 1..Len(SelectSeq(geometries, Drawable)) |->
        MeshOf(SelectSeq(geometries, Drawable)[i])]

\* a showError that clears the scene
ShowErrorCleared(v, message) ==
    [v EXCEPT !.errorText = message, !.errorShown = TRUE, !.meshes = <<>>]

\* showError(message)
ShowError(v, message) == [v EXCEPT !.errorText = message, !.errorShown = TRUE]

\* the message listener of the client script
HandleMessage(v, msg) ==
    IF msg.type = "renderEntities"
    THEN [v EXCEPT !.errorShown = FALSE,
                   !.meshes = RenderGeometries(msg.entities),
                   !.paramUI = Len(msg.definitions) > 0,
                   !.seen = @ + 1]
    ELSE [ShowError(v, msg.message) EXCEPT !.seen = @ + 1]

\* the scripts the file on disk can be: one that renders a solid, one whose
\* main throws, and one whose getParameterDefinitions is asynchronous
SolidValue == GeomVal("object", TRUE, "arrayA", "absent", "identity", "red")
OutlineValue == GeomVal("object", TRUE, "absent", "arrayB", "absent", "absent")
MainReturning(g) ==
    [kind |-> "function", throws |-> FALSE,
     result |-> [isArray |-> FALSE, items |-> <<g>>]]
GpdReturning(settles, result) ==
    [kind |-> "function", throws |-> FALSE, settles |-> settles, result |-> result]
ExtScripts ==
    {[IdleScript EXCEPT !.main = MainReturning(SolidValue),
                        !.gpd = GpdReturning("sync", DefsValue("array", FlagDefs))],
     [IdleScript EXCEPT !.main = [kind |-> "function", throws |-> TRUE,
                                  result |-> NoResult],
                        !.gpd = GpdReturning("sync", DefsValue("array", FlagDefs))],
     [IdleScript EXCEPT !.main = MainReturning(OutlineValue),
                        !.gpd = GpdReturning("fulfils", DefsValue("array", FlagDefs))]}

\* the scripts whose functions are synchronous: one that renders a solid, one
\* whose main throws, one that throws while it is loaded
SyncScripts ==
    {[IdleScript EXCEPT !.main = MainReturning(SolidValue),
                        !.gpd = GpdReturning("sync", DefsValue("array", FlagDefs))],
     [IdleScript EXCEPT !.main = [kind |-> "function", throws |-> TRUE,
                                  result |-> NoResult],
                        !.gpd = GpdReturning("sync", DefsValue("array", FlagDefs))],
     [IdleScript EXCEPT !.load = "throws",
                        !.main = MainReturning(SolidValue),
                        !.gpd = GpdReturning("sync", DefsValue("array", FlagDefs))]}

\* the values a parameterChanged message carries for the checkbox
ExtValues == {Bool(FALSE), Str(cTRUE)}

\* The promise of getParameterDefinitions is settled when the function
\* returns, unless the script's function returned a promise of its own.
Deferred(s) ==
    /\ ~TryGetParameterDefinitions(s).threw
    /\ s.gpd.kind = "function"
    /\ s.gpd.settles # "sync"

\* executeAndRender(filePath) up to its first await, on the script s that is
\* on disk: the status is set and getParameterDefinitions has run. name and
\* value are those of the parameterChanged message that began the call.
BeginRun(trigger, name, value, s) ==
    /\ Len(runs) < MaxRuns
    /\ runs' = Append(runs, [trigger |-> trigger, name |-> name, value |-> value,
                             pc |-> "awaitDefs",
                             defs |-> GetParameterDefinitions(s),
                             params |-> <<>>, exec |-> NoExecution])
    /\ queue' = IF Deferred(s) THEN queue ELSE Append(queue, Len(runs) + 1)
    /\ status' = "HootCAD: Executing..."

\* the timer the save watcher sets when its executeAndRender has returned
SaveTimer(run) == IF run.trigger = "save" THEN 1 ELSE 0

\* the catch block of executeAndRender for the call r, which ends it
Fail(r, error) ==
    /\ runs' = [runs EXCEPT ![r].pc = "done"]
    /\ queue' = Tail(queue)
    /\ status' = "HootCAD: Error"
    /\ posted' = posted \o FailureMessages(r, error, panel)
    /\ timers' = timers + SaveTimer(runs[r])

\* An event of the host (a command, a message of the preview, a save, the
\* disposal of the panel, a timer, the settling of a promise of the script) is
\* a task of its own: it starts when no continuation is queued, and the
\* continuations it queues run before the next one.
TaskStarts == queue = <<>>

\* the command hootcad.openPreview when no panel exists: the panel is created
\* and its client script starts loading
CreatePreview ==
    /\ TaskStarts
    /\ ~panel
    /\ panel' = TRUE
    /\ view' = [NoView EXCEPT !.base = Len(posted), !.seen = Len(posted)]
    /\ UNCHANGED <<status, timers, disk, runs, queue, posted>>
    /\ UNCHANGED <<cacheVars, resolveVars, convVars, engineVars, restVars>>

\* the command hootcad.openPreview when the panel exists
RevealPreview ==
    /\ TaskStarts
    /\ panel
    /\ BeginRun("openPreview", "", Undefined, disk)
    /\ UNCHANGED <<panel, timers, disk, posted, view>>
    /\ UNCHANGED <<cacheVars, resolveVars, convVars, engineVars, restVars>>

\* The client script has run and its 'ready' message is handled. The messages
\* posted while it was loading are either held for it or lost.
WebviewReady ==
    /\ TaskStarts
    /\ panel
    /\ ~view.loaded
    /\ \E b \in {view.base, Len(posted)} :
          view' = [view EXCEPT !.loaded = TRUE, !.base = b, !.seen = b]
    /\ BeginRun("ready", "", Undefined, disk)
    /\ UNCHANGED <<panel, timers, disk, posted>>
    /\ UNCHANGED <<cacheVars, resolveVars, convVars, engineVars, restVars>>

\* a parameterChanged handler that does not write the cache
ParameterChangedUnsaved(name, value) ==
    /\ TaskStarts
    /\ panel
    /\ view.paramUI
    /\ BeginRun("parameterChanged", name, value, disk)
    /\ UNCHANGED <<panel, timers, disk, posted, view>>
    /\ UNCHANGED <<cacheVars, resolveVars, convVars, engineVars, restVars>>

\* a 'parameterChanged' message of the parameter panel is handled
ParameterChanged(name, value) ==
    /\ TaskStarts
    /\ panel
    /\ view.paramUI
    /\ cache' = WithParameter(cache, TheFile, name, value)
    /\ store' = SaveToStorage(cache')
    /\ BeginRun("parameterChanged", name, value, disk)
    /\ UNCHANGED <<panel, timers, disk, posted, view>>
    /\ UNCHANGED <<merged, op, resolveVars, convVars, engineVars, restVars>>

\* the script is saved as s while the panel is open
SaveWithPanel(s) ==
    /\ TaskStarts
    /\ panel
    /\ disk' = s
    /\ BeginRun("save", "", Undefined, s)
    /\ UNCHANGED <<panel, timers, posted, view>>
    /\ UNCHANGED <<cacheVars, resolveVars, convVars, engineVars, restVars>>

\* the script is saved as s while there is no panel
SaveWithoutPanel(s) ==
    /\ TaskStarts
    /\ ~panel
    /\ timers < MaxTimers
    /\ disk' = s
    /\ status' = "HootCAD: Saved a.jscad"
    /\ timers' = timers + 1
    /\ UNCHANGED <<panel, runs, queue, posted, view>>
    /\ UNCHANGED <<cacheVars, resolveVars, convVars, engineVars, restVars>>

\* the active editor changes to the .jscad file
EditorChange ==
    /\ TaskStarts
    /\ status' = "HootCAD: a.jscad"
    /\ UNCHANGED <<panel, timers, disk, runs, queue, posted, view>>
    /\ UNCHANGED <<cacheVars, resolveVars, convVars, engineVars, restVars>>

\* the panel is closed; messages the client script had not handled are lost
DisposePanel ==
    /\ TaskStarts
    /\ panel
    /\ panel' = FALSE
    /\ view' = NoView
    /\ UNCHANGED <<status, timers, disk, runs, queue, posted>>
    /\ UNCHANGED <<cacheVars, resolveVars, convVars, engineVars, restVars>>

\* the promise a script's getParameterDefinitions returned settles
SettleDefs(r) ==
    /\ TaskStarts
    /\ runs[r].pc = "awaitDefs"
    /\ queue' = <<r>>
    /\ UNCHANGED <<panel, status, timers, disk, runs, posted, view>>
    /\ UNCHANGED <<cacheVars, resolveVars, convVars, engineVars, restVars>>

\* executeAndRender from its first await to its second: the merge of the
\* cache as it is now, and executeJscadFile on the script as it is now
ResumeDefs ==
    /\ queue # <<>>
    /\ runs[Head(queue)].pc = "awaitDefs"
    /\ LET r == Head(queue)
           defs == runs[r].defs
           params == GetMergedParameters(cache, TheFile, defs.result.defs)
       IN  IF defs.threw THEN Fail(r, defs.error)
           ELSE IF defs.result.t # "array" THEN Fail(r, NotIterable)
           ELSE /\ runs' = [runs EXCEPT
                             ![r].pc = "awaitExec",
                             ![r].params = params,
                             ![r].exec = ExecuteJscadFile(disk,
                                            [given |-> TRUE, obj |-> params])]
                /\ queue' = Append(Tail(queue), r)
                /\ UNCHANGED <<status, posted, timers>>
    /\ UNCHANGED <<panel, disk, view>>
    /\ UNCHANGED <<cacheVars, resolveVars, convVars, engineVars, restVars>>

\* executeAndRender from its second await to its end
ResumeExec ==
    /\ queue # <<>>
    /\ runs[Head(queue)].pc = "awaitExec"
    /\ LET r == Head(queue)
           run == runs[r]
       IN  IF run.exec.threw THEN Fail(r, run.exec.error)
           ELSE /\ runs' = [runs EXCEPT ![r].pc = "done"]
                /\ queue' = Tail(queue)
                /\ IF panel
                   THEN /\ posted' = Append(posted,
                               Message("renderEntities", r, run.exec.result,
                                       run.defs.result.defs, run.params, ""))
                        /\ status' = "HootCAD: Rendered"
                        /\ timers' = timers + 1 + SaveTimer(run)
                   ELSE /\ UNCHANGED <<posted, status>>
                        /\ timers' = timers + SaveTimer(run)
    /\ UNCHANGED <<panel, disk, view>>
    /\ UNCHANGED <<cacheVars, resolveVars, convVars, engineVars, restVars>>

\* a status-reset timer fires
TimerFires ==
    /\ TaskStarts
    /\ timers > 0
    /\ timers' = timers - 1
    /\ status' = "HootCAD: Ready"
    /\ UNCHANGED <<panel, disk, runs, queue, posted, view>>
    /\ UNCHANGED <<cacheVars, resolveVars, convVars, engineVars, restVars>>

\* the client script handles the next message
Deliver ==
    /\ TaskStarts
    /\ panel
    /\ view.loaded
    /\ view.seen < Len(posted)
    /\ view' = HandleMessage(view, posted[view.seen + 1])
    /\ UNCHANGED <<panel, status, timers, disk, runs, queue, posted>>
    /\ UNCHANGED <<cacheVars, resolveVars, convVars, engineVars, restVars>>

----------------------------------------------------------------------------
(* The InputController (src/src/parameterCache.ts, lines 150-335) *)

\* Numbers with a fractional part are held in units of 1/Scale.
Scale == 10000

WHEEL_DELTA_THRESHOLD == 15
MOUSE_WHEEL_ZOOM_SPEED == 8      \* 0.0008
TRACKPAD_ZOOM_SPEED == 50        \* 0.005
ROTATION_SENSITIVITY == 100      \* 0.01

Abs(x) == IF x < 0 THEN -x ELSE x

EventTypes == {"mousedown", "mousemove", "mouseup", "mouseleave", "wheel"}

\* an event of the element; a method call is recorded the same way
Event(type, x, y, deltaY, deltaMode) ==
    [type |-> type, clientX |-> x, clientY |-> y, deltaY |-> deltaY,
     deltaMode |-> deltaMode]
NoEvent == Event("none", 0, 0, 0, 0)

\* a call on the camera controller or on the hook
Call(fn, a, b) == [fn |-> fn, a |-> a, b |-> b]

\* what a handler leaves: the controller and the calls it made
Handled(c, calls) == [ic |-> c, calls |-> calls]

\* the constructor: enabled, not dragging, and attach() has run
NewController ==
    [enabled |-> TRUE, isDragging |-> FALSE,
     previousMousePosition |-> [x |-> 0, y |-> 0],
     listeners |-> EventTypes]

\* attach(): a listener that is registered already is not registered twice
AttachListeners(c) == [c EXCEPT !.listeners = @ \cup EventTypes]

\* a detach that forgets the wheel listener
DetachAllButWheel(c) == [c EXCEPT !.listeners = @ \ (EventTypes \ {"wheel"})]

\* detach(): removing a listener that is not registered does nothing
DetachListeners(c) == [c EXCEPT !.listeners = @ \ EventTypes]

EnableController(c) == [c EXCEPT !.enabled = TRUE]

\* a disable that leaves the drag state
DisableKeepDrag(c) == [c EXCEPT !.enabled = FALSE]

\* disable()
DisableController(c) == [c EXCEPT !.enabled = FALSE, !.isDragging = FALSE]

\* a mousedown handler that does not notify
OnMouseDownSilent(c, event) ==
    IF ~c.enabled THEN Handled(c, <<>>)
    ELSE Handled([c EXCEPT !.isDragging = TRUE,
                           !.previousMousePosition =
                               [x |-> event.clientX, y |-> event.clientY]],
                 <<>>)

\* _onMouseDown(event)
OnMouseDown(c, event) ==
    IF ~c.enabled THEN Handled(c, <<>>)
    ELSE Handled([c EXCEPT !.isDragging = TRUE,
                           !.previousMousePosition =
                               [x |-> event.clientX, y |-> event.clientY]],
                 <<Call("onInteraction", 0, 0)>>)

\* a mousemove handler that rotates whenever enabled
OnMouseMoveAlways(c, event) ==
    IF ~c.enabled THEN Handled(c, <<>>)
    ELSE Handled([c EXCEPT !.previousMousePosition =
                               [x |-> event.clientX, y |-> event.clientY]],
                 <<Call("rotate",
                        (event.clientX - c.previousMousePosition.x) * ROTATION_SENSITIVITY,
                        (event.clientY - c.previousMousePosition.y) * ROTATION_SENSITIVITY)>>)

\* _onMouseMove(event): the angles passed to rotate, in units of 1/Scale
OnMouseMove(c, event) ==
    IF ~c.enabled \/ ~c.isDragging THEN Handled(c, <<>>)
    ELSE Handled([c EXCEPT !.previousMousePosition =
                               [x |-> event.clientX, y |-> event.clientY]],
                 <<Call("rotate",
                        (event.clientX - c.previousMousePosition.x) * ROTATION_SENSITIVITY,
                        (event.clientY - c.previousMousePosition.y) * ROTATION_SENSITIVITY)>>)

\* _onMouseUp(event)
OnMouseUp(c, event) ==
    IF ~c.enabled THEN Handled(c, <<>>)
    ELSE Handled([c EXCEPT !.isDragging = FALSE], <<>>)

\* _onMouseLeave(event)
OnMouseLeave(c, event) ==
    IF ~c.enabled THEN Handled(c, <<>>)
    ELSE Handled([c EXCEPT !.isDragging = FALSE], <<>>)

\* _normalizeWheelDelta(event)
NormalizeWheelDelta(event) ==
    event.deltaY * (IF event.deltaMode = 1 THEN 16
                    ELSE IF event.deltaMode = 2 THEN 100 ELSE 1)

\* a classification that counts the threshold itself as a mouse wheel
GetZoomSpeedInclusive(delta) ==
    IF Abs(delta) >= WHEEL_DELTA_THRESHOLD THEN MOUSE_WHEEL_ZOOM_SPEED
    ELSE TRACKPAD_ZOOM_SPEED

\* _getZoomSpeed(delta), in units of 1/Scale
GetZoomSpeed(delta) ==
    IF Abs(delta) > WHEEL_DELTA_THRESHOLD THEN MOUSE_WHEEL_ZOOM_SPEED
    ELSE TRACKPAD_ZOOM_SPEED

\* a wheel handler that ends a drag
OnWheelEndsDrag(c, event) ==
    IF ~c.enabled THEN Handled(c, <<>>)
    ELSE Handled([c EXCEPT !.isDragging = FALSE],
                 <<Call("onInteraction", 0, 0),
                   Call("zoom", NormalizeWheelDelta(event)
                                  * GetZoomSpeed(NormalizeWheelDelta(event)), 0)>>)

\* _onWheel(event). The factor passed to zoom is Math.exp(delta * zoomSpeed):
\* the call is recorded with the exponent, in units of 1/Scale.
OnWheel(c, event) ==
    IF ~c.enabled THEN Handled(c, <<>>)
    ELSE Handled(c,
                 <<Call("onInteraction", 0, 0),
                   Call("zoom", NormalizeWheelDelta(event)
                                  * GetZoomSpeed(NormalizeWheelDelta(event)), 0)>>)

\* the element dispatches the event to the listener registered for its type
DispatchEvent(c, event) ==
    IF event.type \notin c.listeners THEN Handled(c, <<>>)
    ELSE CASE event.type = "mousedown" -> OnMouseDown(c, event)
           [] event.type = "mousemove" -> OnMouseMove(c, event)
           [] event.type = "mouseup" -> OnMouseUp(c, event)
           [] event.type = "mouseleave" -> OnMouseLeave(c, event)
           [] event.type = "wheel" -> OnWheel(c, event)

\* the pointer positions and wheel deltas of the events
PointerXs == {0, 3}
PointerYs == {0, 2}
WheelDeltas == {-16, -15, 1, 15, 16}
DeltaModes == {0, 1, 2}

\* the element receives an event
ElementEvent(event) ==
    /\ icPre' = ic
    /\ icEv' = event
    /\ ic' = DispatchEvent(ic, event).ic
    /\ icCalls' = DispatchEvent(ic, event).calls
    /\ UNCHANGED <<cacheVars, resolveVars, convVars, engineVars, extVars, orbit, loaderVars, mcpVars>>

\* a method of the controller is called
MethodCall(name, c) ==
    /\ icPre' = ic
    /\ icEv' = Event(name, 0, 0, 0, 0)
    /\ ic' = c
    /\ icCalls' = <<>>
    /\ UNCHANGED <<cacheVars, resolveVars, convVars, engineVars, extVars, orbit, loaderVars, mcpVars>>

MouseDown(x, y) == ElementEvent(Event("mousedown", x, y, 0, 0))
MouseMove(x, y) == ElementEvent(Event("mousemove", x, y, 0, 0))
MouseUp(x, y) == ElementEvent(Event("mouseup", x, y, 0, 0))
MouseLeave(x, y) == ElementEvent(Event("mouseleave", x, y, 0, 0))
Wheel(deltaY, deltaMode) == ElementEvent(Event("wheel", 0, 0, deltaY, deltaMode))
Enable == MethodCall("enable", EnableController(ic))
Disable == MethodCall("disable", DisableController(ic))
Attach == MethodCall("attach", AttachListeners(ic))
Detach == MethodCall("detach", DetachListeners(ic))

----------------------------------------------------------------------------
(* The orbit controls of the client script (src/unnamed/part_001, lines
   698-746). Angles and distances are held in units of 1/Scale. *)

PI == 31416

Max(a, b) == IF a > b THEN a ELSE b
Min(a, b) == IF a < b THEN a ELSE b

\* a clamp of the polar angle with no upper limit
ClampPhiBelow(phi) == Max(1000, phi)

\* Math.max(0.1, Math.min(Math.PI - 0.1, phi))
ClampPhi(phi) == Max(1000, Min(PI - 1000, phi))

\* Math.max(5, Math.min(200, cameraDistance))
ClampDistance(distance) == Max(5 * Scale, Min(200 * Scale, distance))

\* the closure when setupControls returns; camera holds the spherical
\* coordinates of the last updateCameraPosition, none so far
NewControls ==
    [isDragging |-> FALSE, previousMousePosition |-> [x |-> 0, y |-> 0],
     theta |-> 7854, phi |-> 7854, distance |-> 50 * Scale,
     camera |-> [theta |-> 0, phi |-> 0, distance |-> 0]]

\* updateCameraPosition(): the camera is placed from the three coordinates
UpdateCameraPosition(o) ==
    [o EXCEPT !.camera = [theta |-> o.theta, phi |-> o.phi, distance |-> o.distance]]

OrbitUnchanged ==
    UNCHANGED <<cacheVars, resolveVars, convVars, engineVars, extVars, inputVars, loaderVars, mcpVars>>

\* the mousedown listener of the canvas
OrbitMouseDown(x, y) ==
    /\ orbit' = [orbit EXCEPT !.isDragging = TRUE,
                              !.previousMousePosition = [x |-> x, y |-> y]]
    /\ OrbitUnchanged

\* the mousemove listener of the canvas
OrbitMouseMove(x, y) ==
    /\ Abs(orbit.theta - (x - orbit.previousMousePosition.x) * 100) <= MaxTheta
    /\ orbit' =
          IF ~orbit.isDragging THEN orbit
          ELSE UpdateCameraPosition(
                 [orbit EXCEPT
                    !.theta = @ - (x - orbit.previousMousePosition.x) * 100,
                    !.phi = ClampPhi(@ - (y - orbit.previousMousePosition.y) * 100),
                    !.previousMousePosition = [x |-> x, y |-> y]])
    /\ OrbitUnchanged

\* the mouseup listener of the canvas
OrbitMouseUp ==
    /\ orbit' = [orbit EXCEPT !.isDragging = FALSE]
    /\ OrbitUnchanged

\* the mouseleave listener of the canvas
OrbitMouseLeave ==
    /\ orbit' = [orbit EXCEPT !.isDragging = FALSE]
    /\ OrbitUnchanged

\* the wheel listener of the canvas
OrbitWheel(deltaY) ==
    /\ orbit' = UpdateCameraPosition(
                  [orbit EXCEPT !.distance = ClampDistance(@ + deltaY * 500)])
    /\ OrbitUnchanged

\* the pointer positions and wheel deltas of the canvas events
CanvasXs == {0, 100}
CanvasYs == {0, 200}
CanvasDeltas == {-1500, -120, 120, 1500}

----------------------------------------------------------------------------
(* The script loader (src/unnamed/part_001, lines 21-70) *)

ScriptPaths == {"/a.jscad", "/b.jscad"}

\* What a .jscad file does at its top level. Every script reads the global
\* `leak` of its context into its exports and then sets it. A stateful script
\* also requires the module ./state.js through Node's require, reads its
\* field into its exports and then sets it. A script with a requires path
\* then requires that .jscad file.
Program(stateful, requires) == [stateful |-> stateful, requires |-> requires]
Programs == {Program(s, r) : s \in BOOLEAN, r \in {"none"} \cup ScriptPaths}
NoFiles == [p \in ScriptPaths |-> Program(FALSE, "none")]

\* Node's module cache: whether ./state.js has been loaded, and its field
NoModules == [loaded |-> FALSE, field |-> 0]

\* what a script saw when it ran
Seen(path, global, field) == [path |-> path, global |-> global, field |-> field]

\* A call of loadJscadModuleFromFile in progress: its context (the global
\* `leak`) and its module.exports, held as the list of what the script and
\* the scripts it required saw.
Frame(path) == [path |-> path, pc |-> "run", leak |-> FALSE, exports |-> <<>>]

MaximumCallStack == Err("RangeError", "Maximum call stack size exceeded")

Outcome(path, threw, error, exports) ==
    [path |-> path, threw |-> threw, error |-> error, exports |-> exports]

\* nodeRequire: the cached module when there is one
NodeRequire(c) == IF c.loaded THEN c ELSE [loaded |-> TRUE, field |-> 0]

\* vm.createContext with a new module object
CreateContext(path) == Frame(path)

LoaderUnchanged ==
    UNCHANGED <<cacheVars, resolveVars, convVars, engineVars, extVars, inputVars, orbit, mcpVars>>

\* loadJscadModuleFromFile(filePath) is called by the engine
BeginLoad(path) ==
    /\ stack = <<>>
    /\ Len(loads) < MaxLoads
    /\ stack' = <<CreateContext(path)>>
    /\ UNCHANGED <<files, nodeCache, loads>>
    /\ LoaderUnchanged

\* script.runInContext up to the script's require of a .jscad file, or to its
\* end. The nested call of customRequire begins a load of its own; when the
\* call stack is full the engine throws, no script catches, and the outermost
\* call ends with the RangeError.
RunScript ==
    /\ stack # <<>>
    /\ stack[Len(stack)].pc = "run"
    /\ LET n == Len(stack)
           f == stack[n]
           prog == files[f.path]
           cached == IF prog.stateful THEN NodeRequire(nodeCache) ELSE nodeCache
           saw == Seen(f.path, f.leak, IF prog.stateful THEN cached.field ELSE 0)
           ran == [f EXCEPT !.leak = TRUE, !.exports = <<saw>>,
                            !.pc = IF prog.requires = "none" THEN "return"
                                   ELSE "required"]
       IN  /\ nodeCache' = IF prog.stateful THEN [cached EXCEPT !.field = 1]
                           ELSE nodeCache
           /\ IF prog.requires = "none"
              THEN stack' = [stack EXCEPT ![n] = ran] /\ UNCHANGED loads
              ELSE IF n < StackLimit
              THEN /\ stack' = Append([stack EXCEPT ![n] = ran],
                                      CreateContext(prog.requires))
                   /\ UNCHANGED loads
              ELSE /\ stack' = <<>>
                   /\ loads' = Append(loads, Outcome(stack[1].path, TRUE,
                                                     MaximumCallStack, <<>>))
    /\ UNCHANGED files
    /\ LoaderUnchanged

\* a call returns module.exports: to the script that required it, or to the
\* engine
ReturnExports ==
    /\ stack # <<>>
    /\ stack[Len(stack)].pc = "return"
    /\ LET n == Len(stack)
           f == stack[n]
       IN  IF n = 1
           THEN /\ stack' = <<>>
                /\ loads' = Append(loads, Outcome(f.path, FALSE, NoError, f.exports))
           ELSE /\ stack' = [SubSeq(stack, 1, n - 1) EXCEPT
                               ![n - 1].exports = @ \o f.exports,
                               ![n - 1].pc = "return"]
                /\ UNCHANGED loads
    /\ UNCHANGED <<files, nodeCache>>
    /\ LoaderUnchanged

----------------------------------------------------------------------------
(* The McpManager (src/src/mcpManager.ts): the server process, the candidates
   of a start and their listeners *)

MaxStarts == 2

McpUnchanged ==
    UNCHANGED <<cacheVars, resolveVars, convVars, engineVars, extVars,
                inputVars, orbit, loaderVars>>

\* the number of processes assigned to mcpProcess so far
Accepted(ps) == Cardinality({p \in DOMAIN ps : ps[p].accepted > 0})

\* childProcess.spawn(...) in trySpawnMcpServer for the given attempt of a
\* startMcpServer call, with the closure of its promise: `started`, the
\* pending startTimeout and the promise itself
Candidate(call, attempt) ==
    [call |-> call, attempt |-> attempt,
     running |-> TRUE, ev |-> "none", banner |-> FALSE, killed |-> FALSE,
     started |-> FALSE, startTimeout |-> TRUE, timedOut |-> FALSE,
     settled |-> "pending", lifecycle |-> FALSE, accepted |-> 0]

\* child_process.spawn(...) in the startMcpServer that spawns the server
\* itself: the process is assigned to mcpProcess and gets its 'exit' and
\* 'error' listeners at once; there is no promise and no timeout
Server(call, order) ==
    [call |-> call, attempt |-> 0,
     running |-> TRUE, ev |-> "none", banner |-> FALSE, killed |-> FALSE,
     started |-> FALSE, startTimeout |-> FALSE, timedOut |-> FALSE,
     settled |-> "none", lifecycle |-> TRUE, accepted |-> order]

\* resolve(value) in the closure of the candidate p, and what startMcpServer
\* does when its await returns: a promise settles once; on true the call
\* returns, on false of the first attempt it spawns the second candidate, on
\* false of the second it reports the failure.  Gives the processes and the
\* calls afterwards.
ResolvePromise(ps, st, p, value) ==
    IF ps[p].settled # "pending" THEN [procs |-> ps, starts |-> st]
    ELSE LET c == ps[p].call
             settledPs == [ps EXCEPT ![p].settled =
                                        IF value THEN "true" ELSE "false"]
         IN  IF value
             THEN [procs |-> settledPs,
                   starts |-> [st EXCEPT ![c] = "started"]]
             ELSE IF ps[p].attempt = 1
             THEN [procs |-> Append(settledPs, Candidate(c, 2)),
                   starts |-> st]
             ELSE [procs |-> settledPs,
                   starts |-> [st EXCEPT ![c] = "failed"]]

\* startMcpServer() of the manager that spawns the server itself
StartMcpServerSpawn ==
    /\ variant = "spawn"
    /\ ~disposed
    /\ Len(starts) < MaxStarts
    /\ IF mcpProcess # 0
       THEN /\ starts' = Append(starts, "already running")
            /\ UNCHANGED <<mcpProcess, procs>>
       ELSE /\ procs' = Append(procs, Server(Len(starts) + 1,
                                             Accepted(procs) + 1))
            /\ mcpProcess' = Len(procs) + 1
            /\ starts' = Append(starts, "started")
    /\ UNCHANGED <<variant, disposed>>
    /\ McpUnchanged

\* startMcpServer() of the manager that probes candidates, up to its first
\* await
StartMcpServer ==
    /\ variant = "probe"
    /\ ~disposed
    /\ Len(starts) < MaxStarts
    /\ IF mcpProcess # 0
       THEN /\ starts' = Append(starts, "already running")
            /\ UNCHANGED procs
       ELSE /\ procs' = Append(procs, Candidate(Len(starts) + 1, 1))
            /\ starts' = Append(starts, "pending")
    /\ UNCHANGED <<variant, mcpProcess, disposed>>
    /\ McpUnchanged

\* the body of stopMcpServer()
Stop ==
    IF mcpProcess # 0
    THEN /\ procs' = [procs EXCEPT ![mcpProcess].killed = TRUE]
         /\ mcpProcess' = 0
    ELSE UNCHANGED <<mcpProcess, procs>>

\* stopMcpServer()
StopMcpServer ==
    /\ ~disposed
    /\ Stop
    /\ UNCHANGED <<variant, starts, disposed>>
    /\ McpUnchanged

\* dispose()
Dispose ==
    /\ ~disposed
    /\ disposed' = TRUE
    /\ Stop
    /\ UNCHANGED <<variant, starts>>
    /\ McpUnchanged

\* the process p ends, of itself or of a signal, or could not be started:
\* its 'exit' or 'error' event is on its way, and what it wrote to stderr
\* before may still be in the pipe
Exits(p) ==
    /\ procs[p].running
    /\ procs' = [procs EXCEPT ![p].running = FALSE, ![p].ev = "pending"]
    /\ UNCHANGED <<variant, mcpProcess, starts, disposed>>
    /\ McpUnchanged

\* the 'data' listener of p's stderr on the chunk that holds the startup
\* banner, which the process wrote while it ran
StderrData(p) ==
    /\ ~procs[p].banner
    /\ IF procs[p].attempt > 0 /\ ~procs[p].started
       THEN LET accepted == [procs EXCEPT ![p].banner = TRUE,
                                          ![p].started = TRUE,
                                          ![p].startTimeout = FALSE,
                                          ![p].lifecycle = TRUE,
                                          ![p].accepted = Accepted(procs) + 1]
                after == ResolvePromise(accepted, starts, p, TRUE)
            IN  /\ mcpProcess' = p
                /\ procs' = after.procs
                /\ starts' = after.starts
       ELSE /\ procs' = [procs EXCEPT ![p].banner = TRUE]
            /\ UNCHANGED <<mcpProcess, starts>>
    /\ UNCHANGED <<variant, disposed>>
    /\ McpUnchanged

\* the 'exit' or 'error' event of p: the listeners of the candidate, then
\* the listeners attached when the process was assigned to mcpProcess
ExitOrError(p) ==
    /\ procs[p].ev = "pending"
    /\ LET handled == [procs EXCEPT ![p].ev = "handled",
                                    ![p].startTimeout = FALSE]
           after == IF procs[p].attempt > 0 /\ ~procs[p].started
                    THEN ResolvePromise(handled, starts, p, FALSE)
                    ELSE [procs |-> handled, starts |-> starts]
       IN  /\ procs' = after.procs
           /\ starts' = after.starts
           /\ mcpProcess' = IF procs[p].lifecycle THEN 0 ELSE mcpProcess
    /\ UNCHANGED <<variant, disposed>>
    /\ McpUnchanged

\* the startTimeout of the candidate p fires after 2 seconds
StartTimeout(p) ==
    /\ procs[p].startTimeout
    /\ LET fired == [procs EXCEPT ![p].startTimeout = FALSE]
           killed == [fired EXCEPT ![p].killed = TRUE, ![p].timedOut = TRUE]
           after == IF ~procs[p].started
                    THEN ResolvePromise(killed, starts, p, FALSE)
                    ELSE [procs |-> fired, starts |-> starts]
       IN  /\ procs' = after.procs
           /\ starts' = after.starts
    /\ UNCHANGED <<variant, mcpProcess, disposed>>
    /\ McpUnchanged

----------------------------------------------------------------------------
(* Specifications *)

NoStore == [present |-> FALSE, obj |-> <<>>]

ResolveIdle == rsIn = IdleInput /\ rsOut = Pending
CacheIdle == cache = <<>> /\ store = NoStore /\ merged = <<>> /\ op = NoOp
ConvIdle ==
    /\ geom = NoGeom /\ buf = NoBuffer /\ tris = NoTriangles
    /\ geom2 = NoGeom2 /\ buf2 = NoBuffer
EngineIdle == script = IdleScript /\ ex = NoExecution /\ pd = NoDefinitions
InputIdle ==
    /\ ic = NewController /\ icPre = NewController
    /\ icEv = NoEvent /\ icCalls = <<>>
OrbitIdle == orbit = NewControls
LoaderIdle ==
    /\ files = NoFiles /\ nodeCache = NoModules /\ stack = <<>> /\ loads = <<>>
McpIdle ==
    /\ variant = "probe" /\ mcpProcess = 0 /\ procs = <<>>
    /\ starts = <<>> /\ disposed = FALSE
RestIdle == InputIdle /\ OrbitIdle /\ LoaderIdle /\ McpIdle
ExtIdle ==
    /\ panel = FALSE /\ status = "" /\ timers = 0 /\ disk = IdleScript
    /\ runs = <<>> /\ queue = <<>> /\ posted = <<>> /\ view = NoView

\* The life cycle of one ParameterCache over one workspaceState: constructed
\* over an empty store, then any sequence of operations.
Init ==
    /\ cache = LoadFromStorage(NoStore)
    /\ store = NoStore
    /\ merged = <<>>
    /\ op = NoOp
    /\ ResolveIdle
    /\ ConvIdle
    /\ EngineIdle
    /\ ExtIdle
    /\ RestIdle

Next ==
    \/ \E f \in Paths, o \in SetObjs : Set(f, o)
    \/ \E f \in Paths, n \in Names, v \in SmallPool : UpdateParameter(f, n, v)
    \/ \E f \in Paths : Clear(f)
    \/ ClearAll
    \/ Construct
    \/ \E f \in Paths, ds \in LifeDefLists : GetMerged(f, ds)

Spec == Init /\ [][Next]_vars

\* The merge as a function of the cached values: the cache holds any object of
\* MergeObjs for the first file (as updateParameter leaves it), and the
\* definitions are any list of DefLists.
InitMerge ==
    /\ cache \in {<<>>} \cup {<<[key |-> "/a.jscad", val |-> o]>> : o \in MergeObjs}
    /\ store = IF cache = <<>> THEN NoStore ELSE SaveToStorage(cache)
    /\ merged = <<>>
    /\ op = NoOp
    /\ ResolveIdle
    /\ ConvIdle
    /\ EngineIdle
    /\ ExtIdle
    /\ RestIdle

\* one call in each behaviour
NextMerge == op = NoOp /\ \E f \in Paths, ds \in DefLists : GetMerged(f, ds)

SpecMerge == InitMerge /\ [][NextMerge]_vars

\* One call of the resolver on any of the inputs.
InitResolve ==
    /\ rsIn \in ResolveInputs
    /\ rsOut = Pending
    /\ CacheIdle
    /\ ConvIdle
    /\ EngineIdle
    /\ ExtIdle
    /\ RestIdle

NextResolve == Resolve

SpecResolve == InitResolve /\ [][NextResolve]_vars

\* The converter on any solid of Geoms or any outline of Geoms2: one
\* conversion of each kind, and one triangulation of one of the polygons.
InitConv ==
    /\ \/ geom \in Geoms /\ geom2 = NoGeom2
       \/ geom \in {NoGeom, MixedGeom} /\ geom2 \in Geoms2
    /\ buf = NoBuffer
    /\ buf2 = NoBuffer
    /\ tris = NoTriangles
    /\ CacheIdle
    /\ ResolveIdle
    /\ EngineIdle
    /\ ExtIdle
    /\ RestIdle

NextConv ==
    \/ ConvertGeom3
    \/ ConvertGeom2
    \/ \E i \in 1..Len(geom.polygons) : Triangulate(i)

SpecConv == InitConv /\ [][NextConv]_vars

\* The engine on any script of Scripts: one execution and one lookup of the
\* parameter definitions.
InitEngine ==
    /\ script \in Scripts
    /\ ex = NoExecution
    /\ pd = NoDefinitions
    /\ CacheIdle
    /\ ResolveIdle
    /\ ConvIdle
    /\ ExtIdle
    /\ RestIdle

NextEngine ==
    \/ \E p \in ParamsPool : Execute(p)
    \/ GetDefinitions

SpecEngine == InitEngine /\ [][NextEngine]_vars

\* The activated extension over any script of ExtScripts, an empty parameter
\* cache and no panel; at most MaxRuns calls of executeAndRender.
InitExt ==
    /\ panel = FALSE
    /\ status = "HootCAD: Ready"
    /\ timers = 0
    /\ disk \in ExtScripts
    /\ runs = <<>>
    /\ queue = <<>>
    /\ posted = <<>>
    /\ view = NoView
    /\ cache = LoadFromStorage(NoStore)
    /\ store = NoStore
    /\ merged = <<>>
    /\ op = NoOp
    /\ ResolveIdle
    /\ ConvIdle
    /\ EngineIdle
    /\ RestIdle

NextExt ==
    \/ CreatePreview
    \/ RevealPreview
    \/ WebviewReady
    \/ \E v \in ExtValues : ParameterChanged("flag", v)
    \/ \E s \in ExtScripts : SaveWithPanel(s)
    \/ \E s \in ExtScripts : SaveWithoutPanel(s)
    \/ EditorChange
    \/ DisposePanel
    \/ \E r \in 1..Len(runs) : SettleDefs(r)
    \/ ResumeDefs
    \/ ResumeExec
    \/ TimerFires
    \/ Deliver

SpecExt == InitExt /\ [][NextExt]_vars

\* The activated extension over the scripts of SyncScripts: no promise of a
\* script is ever pending, so every call of executeAndRender runs to its end
\* before the next event of the host.
InitSync ==
    /\ panel = FALSE
    /\ status = "HootCAD: Ready"
    /\ timers = 0
    /\ disk \in SyncScripts
    /\ runs = <<>>
    /\ queue = <<>>
    /\ posted = <<>>
    /\ view = NoView
    /\ cache = LoadFromStorage(NoStore)
    /\ store = NoStore
    /\ merged = <<>>
    /\ op = NoOp
    /\ ResolveIdle
    /\ ConvIdle
    /\ EngineIdle
    /\ RestIdle

NextSync ==
    \/ CreatePreview
    \/ RevealPreview
    \/ WebviewReady
    \/ \E v \in ExtValues : ParameterChanged("flag", v)
    \/ \E s \in SyncScripts : SaveWithPanel(s)
    \/ \E s \in SyncScripts : SaveWithoutPanel(s)
    \/ EditorChange
    \/ DisposePanel
    \/ ResumeDefs
    \/ ResumeExec
    \/ TimerFires
    \/ Deliver

SpecSync == InitSync /\ [][NextSync]_vars

\* One InputController on its element: any sequence of events of the element
\* and of calls of enable, disable, attach and detach.
InitInput ==
    /\ InputIdle
    /\ OrbitIdle
    /\ LoaderIdle
    /\ McpIdle
    /\ CacheIdle
    /\ ResolveIdle
    /\ ConvIdle
    /\ EngineIdle
    /\ ExtIdle

NextInput ==
    \/ \E x \in PointerXs, y \in PointerYs : MouseDown(x, y)
    \/ \E x \in PointerXs, y \in PointerYs : MouseMove(x, y)
    \/ \E x \in PointerXs, y \in PointerYs : MouseUp(x, y)
    \/ \E x \in PointerXs, y \in PointerYs : MouseLeave(x, y)
    \/ \E d \in WheelDeltas, mode \in DeltaModes : Wheel(d, mode)
    \/ Enable
    \/ Disable
    \/ Attach
    \/ Detach

SpecInput == InitInput /\ [][NextInput]_vars

\* The orbit controls on their canvas: any sequence of events.
InitOrbit ==
    /\ OrbitIdle
    /\ InputIdle
    /\ LoaderIdle
    /\ McpIdle
    /\ CacheIdle
    /\ ResolveIdle
    /\ ConvIdle
    /\ EngineIdle
    /\ ExtIdle

NextOrbit ==
    \/ \E x \in CanvasXs, y \in CanvasYs : OrbitMouseDown(x, y)
    \/ \E x \in CanvasXs, y \in CanvasYs : OrbitMouseMove(x, y)
    \/ OrbitMouseUp
    \/ OrbitMouseLeave
    \/ \E d \in CanvasDeltas : OrbitWheel(d)

SpecOrbit == InitOrbit /\ [][NextOrbit]_vars

\* The loader over any two scripts on disk, with nothing in Node's module
\* cache: at most MaxLoads calls by the engine, one after the other.
InitLoader ==
    /\ files \in [ScriptPaths -> Programs]
    /\ nodeCache = NoModules
    /\ stack = <<>>
    /\ loads = <<>>
    /\ InputIdle
    /\ OrbitIdle
    /\ McpIdle
    /\ CacheIdle
    /\ ResolveIdle
    /\ ConvIdle
    /\ EngineIdle
    /\ ExtIdle

NextLoader ==
    \/ \E p \in ScriptPaths : BeginLoad(p)
    \/ RunScript
    \/ ReturnExports

SpecLoader == InitLoader /\ [][NextLoader]_vars

\* One McpManager of either kind from its construction: calls of
\* startMcpServer, stopMcpServer and dispose, the events of the child
\* processes and the timeouts, in any order.
InitMcp ==
    /\ variant \in {"spawn", "probe"}
    /\ mcpProcess = 0
    /\ procs = <<>>
    /\ starts = <<>>
    /\ disposed = FALSE
    /\ CacheIdle
    /\ ResolveIdle
    /\ ConvIdle
    /\ EngineIdle
    /\ ExtIdle
    /\ InputIdle
    /\ OrbitIdle
    /\ LoaderIdle

NextMcp ==
    \/ StartMcpServerSpawn
    \/ StartMcpServer
    \/ StopMcpServer
    \/ Dispose
    \/ \E p \in DOMAIN procs : Exits(p)
    \/ \E p \in DOMAIN procs : StderrData(p)
    \/ \E p \in DOMAIN procs : ExitOrError(p)
    \/ \E p \in DOMAIN procs : StartTimeout(p)

SpecMcp == InitMcp /\ [][NextMcp]_vars

----------------------------------------------------------------------------
(* Claims about getMergedParameters *)

MergedCall == op.name = "getMergedParameters"
CachedAtCall == CachedOrEmpty(cache, op.path)
DeclaredNames == {op.defs[i].name : i \in 1..Len(op.defs)}
SameEntry(a, b, k) ==
    /\ EntHas(a, k) = EntHas(b, k)
    /\ EntHas(a, k) => EntGet(a, k) = EntGet(b, k)

\* C1: for every definition d with a cached entry c, the merged value of
\* d.name is coerceValue(d, c) when that is not undefined, and otherwise d's
\* computed default (no entry when d has no default): a failed coercion
\* neither sets the entry nor removes the default.
C1_CoercedOrDefault ==
    MergedCall =>
        \A i \in 1..Len(op.defs) :
            LET d == op.defs[i]
                c == EntGet(CachedAtCall, d.name)
            IN  EntHas(CachedAtCall, d.name) =>
                    IF CoerceValue(d, c) # Undefined
                    THEN /\ EntHas(merged, d.name)
                         /\ EntGet(merged, d.name) = CoerceValue(d, c)
                    ELSE SameEntry(merged, DefaultStep(<<>>, d), d.name)

\* a cached value that fails coercion was merged over a declared default
C1_Witness ==
    /\ MergedCall
    /\ \E i \in 1..Len(op.defs) :
          /\ EntHas(CachedAtCall, op.defs[i].name)
          /\ EntGet(CachedAtCall, op.defs[i].name) # Undefined
          /\ CoerceValue(op.defs[i], EntGet(CachedAtCall, op.defs[i].name)) = Undefined
          /\ EntHas(merged, op.defs[i].name)
          /\ EntGet(merged, op.defs[i].name) = op.defs[i].initial

\* C2 as claimed: the keys of the merged mapping are exactly the declared
\* definition names.
C2_KeysExactlyDeclared == MergedCall => EntKeys(merged) = DeclaredNames

\* C2 as amended: the keys of the merged mapping are declared names, and a
\* declared name has an entry exactly when its definition is a checkbox,
\* declares an initial value, is a choice with a non-empty values list, or has
\* a cached value that coerces successfully.
C2_KeysDeclaredAndDefaulted ==
    MergedCall =>
        /\ EntKeys(merged) \subseteq DeclaredNames
        /\ \A i \in 1..Len(op.defs) :
              LET d == op.defs[i]
              IN  EntHas(merged, d.name) <=>
                    \/ d.type = "checkbox"
                    \/ d.initial # Undefined
                    \/ d.type = "choice" /\ d.hasValues /\ Len(d.values) > 0
                    \/ /\ EntHas(CachedAtCall, d.name)
                       /\ CoerceValue(d, EntGet(CachedAtCall, d.name)) # Undefined

\* a definition without entry, beside a cached name that is not declared
C2_Witness ==
    /\ MergedCall
    /\ \E i \in 1..Len(op.defs) : ~EntHas(merged, op.defs[i].name)
    /\ \E k \in EntKeys(CachedAtCall) : k \notin DeclaredNames /\ ~EntHas(merged, k)

FlagIs(b) == <<[key |-> "flag", val |-> Bool(b)]>>

\* C3: for the script declaring the one checkbox `flag` without initial value:
\* the merge over a file with no cached value is {flag: false}; right after
\* updateParameter(path, 'flag', true) it is {flag: true}; right after
\* updateParameter(path, 'flag', 'notabool') it is {flag: false}; and a
\* getMergedParameters call returns just that.
C3_FlagSequence ==
    /\ \A f \in Paths :
          ~EntHas(cache, f) => GetMergedParameters(cache, f, FlagDefs) = FlagIs(FALSE)
    /\ (op.name = "updateParameter" /\ op.pname = "flag") =>
          /\ op.value = Bool(TRUE) =>
                GetMergedParameters(cache, op.path, FlagDefs) = FlagIs(TRUE)
          /\ op.value = Str(cNotabool) =>
                GetMergedParameters(cache, op.path, FlagDefs) = FlagIs(FALSE)
    /\ (MergedCall /\ op.defs = FlagDefs) =>
          /\ ~EntHas(CachedAtCall, "flag") => merged = FlagIs(FALSE)
          /\ (EntHas(CachedAtCall, "flag") /\ EntGet(CachedAtCall, "flag") = Bool(TRUE))
                => merged = FlagIs(TRUE)
          /\ (EntHas(CachedAtCall, "flag")
                /\ EntGet(CachedAtCall, "flag") = Str(cNotabool))
                => merged = FlagIs(FALSE)

\* updateParameter(path, 'flag', 'notabool') has just overwritten a cached true
C3_Witness ==
    /\ op.name = "updateParameter"
    /\ op.pname = "flag"
    /\ op.value = Str(cNotabool)
    /\ op.old = Bool(TRUE)
    /\ EntGet(EntGet(cache, op.path), "flag") = Str(cNotabool)

\* the cached values whose integer parse is not finite
NotAnInteger ==
    {NaN, Infinity, Str(cNotabool), Str(cTrue), Str(cTRUE), Str(<<>>), Str(<<"b">>)}

C5_Defaults ==
    MergedCall =>
        \A i \in 1..Len(op.defs) :
            LET d == op.defs[i]
            IN  ~EntHas(CachedAtCall, d.name) =>
                  /\ d.type = "checkbox" =>
                        /\ EntHas(merged, d.name)
                        /\ EntGet(merged, d.name) =
                              IF d.checked = Undefined THEN Bool(FALSE) ELSE d.checked
                  /\ (d.type = "choice" /\ d.initial # Undefined) =>
                        EntHas(merged, d.name) /\ EntGet(merged, d.name) = d.initial
                  /\ (d.type = "choice" /\ d.initial = Undefined
                        /\ d.hasValues /\ Len(d.values) > 0) =>
                        EntHas(merged, d.name) /\ EntGet(merged, d.name) = d.values[1]
                  /\ (d.type \notin {"checkbox", "choice"} /\ d.initial # Undefined) =>
                        EntHas(merged, d.name) /\ EntGet(merged, d.name) = d.initial
                  /\ (d.type \notin {"checkbox", "choice"} /\ d.initial = Undefined) =>
                        ~EntHas(merged, d.name)

\* a checkbox declaring initial: true and no `checked` was merged as false
C5_Witness ==
    /\ MergedCall
    /\ \E i \in 1..Len(op.defs) :
          /\ op.defs[i].type = "checkbox"
          /\ op.defs[i].initial = Bool(TRUE)
          /\ op.defs[i].checked = Undefined
          /\ ~EntHas(CachedAtCall, op.defs[i].name)
          /\ EntGet(merged, op.defs[i].name) = Bool(FALSE)

----------------------------------------------------------------------------
(* Claims about persistence *)

Mutation == op.name \in {"set", "updateParameter", "clear", "clearAll"}

\* C6: after every completed set, updateParameter, clear or clearAll the
\* mapping saved under 'hootcad.parameterCache' equals the in-memory cache,
\* and a ParameterCache constructed over that store returns the same
\* get(filePath) for every file path.
C6_SavedEqualsCache ==
    Mutation =>
        /\ store.present
        /\ \A f \in Paths : SameEntry(store.obj, cache, f)
        /\ EntKeys(store.obj) = EntKeys(cache)
        /\ \A f \in Paths : Get(LoadFromStorage(store), f) = Get(cache, f)

\* clear(path) has removed one file and left another in the cache
C6_Witness ==
    /\ op.name = "clear"
    /\ ~EntHas(cache, op.path)
    /\ cache # <<>>
    /\ store.present

----------------------------------------------------------------------------
(* Claims about the entrypoint resolver *)

Resolved == rsOut # Pending
RootOf(in) == IF in.optRoot \in {Undefined, Null} THEN in.vsRoot ELSE in.optRoot
HasRoot(in) == RootOf(in).t = "string" /\ RootOf(in).s # <<>>
EditorOf(in) == IF in.optEditor \in {Undefined, Null} THEN in.vsEditor ELSE in.optEditor
ManifestPath(in) == PathJoin(RootOf(in).s, cPackageJson)
IndexPath(in) == PathJoin(RootOf(in).s, cIndexJscad)
MainPath(in) == PathResolve(RootOf(in).s, in.manifest.main.s)

\* the manifest is there, parses, and its main is a string naming an existing
\* .jscad file
GoodManifest(in) ==
    /\ ManifestPath(in) \in in.files
    /\ in.manifest.kind = "object"
    /\ in.manifest.main.t = "string"
    /\ EndsWith(MainPath(in), cDotJscad)
    /\ MainPath(in) \in in.files

EditorResult(in) ==
    IF EditorOf(in).t = "string" /\ EndsWith(EditorOf(in).s, cDotJscad)
    THEN Entry(EditorOf(in).s, "active-editor")
    ELSE NoEntry

WithoutManifest(in) ==
    [in EXCEPT !.files = @ \ {ManifestPath(in)}, !.manifest = NoManifest]

\* C8: with a manifest that exists but cannot be read or parsed, or whose main
\* is missing, not a string, not a .jscad path or names no existing file, the
\* resolver raises no error and returns what it returns without the manifest.
C8_BadManifestIgnored ==
    (Resolved /\ HasRoot(rsIn) /\ ManifestPath(rsIn) \in rsIn.files
        /\ ~GoodManifest(rsIn)) =>
        /\ rsOut.kind \in {"entry", "null"}
        /\ rsOut = ResolveJscadEntrypointWithOptions(WithoutManifest(rsIn))

\* a package.json that is not JSON was passed over for index.jscad
C8_Witness ==
    /\ Resolved
    /\ HasRoot(rsIn)
    /\ ManifestPath(rsIn) \in rsIn.files
    /\ rsIn.manifest.kind = "invalid"
    /\ rsOut = Entry(IndexPath(rsIn), "index.jscad")

----------------------------------------------------------------------------
(* Claims about the buffer converter *)

\* C9: triangulatePolygon on n vertices returns, for n >= 3, exactly the n-2
\* triangles (0, i, i+1), i = 1..n-2, in that order, and none for n < 3; every
\* index is in 0..n-1.
C9_FanTriangles ==
    tris.called =>
        LET n == Len(tris.vertices)
        IN  /\ n < 3 => tris.triangles = <<>>
            /\ n >= 3 =>
                  /\ Len(tris.triangles) = n - 2
                  /\ \A i \in 1..(n - 2) : tris.triangles[i] = <<0, i, i + 1>>
            /\ \A t \in 1..Len(tris.triangles) :
                  \A k \in 1..Len(tris.triangles[t]) :
                      tris.triangles[t][k] \in 0..(n - 1)

\* a pentagon was cut into three triangles
C9_Witness ==
    /\ tris.called
    /\ Len(tris.vertices) = 5
    /\ Len(tris.triangles) = 3

RECURSIVE TriangleCount(_, _)
\* the sum of n-2 over the polygons from i on that have n >= 3 vertices
TriangleCount(polygons, i) ==
    IF i > Len(polygons) THEN 0
    ELSE (IF Len(polygons[i]) >= 3 THEN Len(polygons[i]) - 2 ELSE 0)
         + TriangleCount(polygons, i + 1)

\* C10: positions and normals have the same length, 9 times the sum of n-2
\* over the polygons with n >= 3 vertices, and there is no index buffer.
C10_BufferLengths ==
    buf.done =>
        /\ buf.hasNormals
        /\ ~buf.hasIndices
        /\ Len(buf.normals) = Len(buf.positions)
        /\ Len(buf.positions) = 9 * TriangleCount(geom.polygons, 1)

\* a solid with a degenerate polygon and a polygon of more than 3 vertices
\* was converted
C10_Witness ==
    /\ buf.done
    /\ \E i \in 1..Len(geom.polygons) : Len(geom.polygons[i]) < 3
    /\ \E i \in 1..Len(geom.polygons) : Len(geom.polygons[i]) > 3
    /\ Len(buf.positions) > 9

\* the items the loops do not skip
HasThreeVertices(vertices) == Len(vertices) >= 3
HasTwoVertices(side) == Len(side) = 2

\* C11: a polygon of fewer than 3 vertices and a side whose vertex count is
\* not 2 contribute nothing and stop nothing: the result of the conversion
\* is the result for the input without those items, in the same order.
C11_AnomalousSkipped ==
    /\ buf.done =>
          buf = ConvertGeom3ToBufferGeometry(
                    [geom EXCEPT !.polygons = SelectSeq(@, HasThreeVertices)])
    /\ buf2.done =>
          buf2 = ConvertGeom2ToLineGeometry(
                     [geom2 EXCEPT !.sides = SelectSeq(@, HasTwoVertices)])

\* a solid with a two-vertex polygon and an outline with a three-vertex side
\* were converted, each with a regular item that was emitted
C11_Witness ==
    /\ buf.done /\ buf2.done
    /\ \E i \in 1..Len(geom.polygons) : Len(geom.polygons[i]) < 3
    /\ \E i \in 1..Len(geom2.sides) : Len(geom2.sides[i]) = 3
    /\ Len(buf.positions) = 18
    /\ Len(buf2.positions) = 6

RECURSIVE ExpectedLine(_, _)
\* x0, y0, 0, x1, y1, 0 for every two-vertex side from i on, in input order
ExpectedLine(sides, i) ==
    IF i > Len(sides) THEN <<>>
    ELSE (IF Len(sides[i]) = 2
          THEN <<sides[i][1][1], sides[i][1][2], 0,
                 sides[i][2][1], sides[i][2][2], 0>>
          ELSE <<>>) \o ExpectedLine(sides, i + 1)

\* C12: convertGeom2ToLineGeometry returns, for each two-vertex side in input
\* order, the 6 numbers x0, y0, 0, x1, y1, 0 (as the Float32Array holds them);
\* there are positions only, 6 for each two-vertex side.
C12_LinePositions ==
    buf2.done =>
        /\ buf2.positions = Float32Array(ExpectedLine(geom2.sides, 1))
        /\ ~buf2.hasNormals
        /\ ~buf2.hasIndices
        /\ Len(buf2.positions) = 6 * Len(SelectSeq(geom2.sides, HasTwoVertices))

\* an outline of two two-vertex sides, one ending in a point that carries a
\* z, was converted to 12 numbers
C12_Witness ==
    /\ buf2.done
    /\ Len(geom2.sides) = 2
    /\ \A i \in 1..2 : Len(geom2.sides[i]) = 2
    /\ Len(geom2.sides[2][2]) = 3
    /\ Len(buf2.positions) = 12
    /\ buf2.positions[12] = 0

\* C13: both converters return the transforms of their input as they are
\* (absent when the input has none), whatever was emitted or skipped.
C13_TransformsPassThrough ==
    /\ buf.done => buf.transforms = geom.transforms
    /\ buf2.done => buf2.transforms = geom2.transforms

\* a solid and an outline with transforms were converted, each with an item
\* that was skipped
C13_Witness ==
    /\ buf.done /\ buf2.done
    /\ geom.transforms = "identity" /\ buf.transforms = "identity"
    /\ geom2.transforms = "identity" /\ buf2.transforms = "identity"
    /\ \E i \in 1..Len(geom.polygons) : Len(geom.polygons[i]) < 3
    /\ \E i \in 1..Len(geom2.sides) : Len(geom2.sides[i]) # 2

----------------------------------------------------------------------------
(* Claims about the engine *)

\* the script loaded and its exports hold no function under `main`
NoMainFunction ==
    /\ script.load = "ok"
    /\ script.exports = "null" \/ script.main.kind # "function"

\* C14 as stated: executeJscadFile on a script without a main function fails
\* with the error 'JSCAD file must export a main() function' and returns no
\* list.
C14_MustExportMainError ==
    (ex.called /\ NoMainFunction) =>
        /\ ex.threw
        /\ ~ex.returned
        /\ ex.error = MustExportMain

\* C14: executeJscadFile on a script without a main function fails and
\* returns no list, and main is not called; the error is 'JSCAD file must
\* export a main() function' when the exports are an object, and the
\* TypeError of reading `main` when the script set module.exports to null.
C14_NoMainFails ==
    (ex.called /\ NoMainFunction) =>
        /\ ex.threw
        /\ ~ex.returned
        /\ ex.result = <<>>
        /\ ex.mainCalls = 0
        /\ script.exports = "object" => ex.error = MustExportMain
        /\ script.exports = "null" => ex.error.name = "TypeError"

\* a script whose `main` is a value that is not a function was executed
C14_Witness ==
    /\ ex.called
    /\ script.load = "ok"
    /\ script.exports = "object"
    /\ script.main.kind = "value"
    /\ ex.error = MustExportMain

\* the value has neither an array `polygons` nor an array `sides`
Unclassified(g) == ~IsArray(g.polygons) /\ ~IsArray(g.sides)

\* main was called and returned
MainReturned ==
    /\ script.load = "ok"
    /\ script.exports = "object"
    /\ script.main.kind = "function"
    /\ ~script.main.throws

\* C15: when main returns, alone or in a list, a value with neither an array
\* `polygons` nor an array `sides`, executeJscadFile does not throw and the
\* entry for that value is tagged 'unknown' and carries the value.
C15_UnknownTagged ==
    (ex.called /\ MainReturned) =>
        \A i \in 1..Len(script.main.result.items) :
            Unclassified(script.main.result.items[i]) =>
                /\ ~ex.threw
                /\ Len(ex.result) = Len(script.main.result.items)
                /\ ex.result[i].type = "unknown"
                /\ ex.result[i].data = script.main.result.items[i]

\* main returned undefined and executeJscadFile threw the TypeError of
\* Object.keys
C15_Witness ==
    /\ ex.called
    /\ MainReturned
    /\ script.main.result = [isArray |-> FALSE, items |-> <<Plain("undefined", FALSE)>>]
    /\ ex.threw
    /\ ex.error = KeysOfNullish

\* the script cannot be loaded, exports no such function, or the function
\* throws
DefinitionsFailure ==
    \/ script.load # "ok"
    \/ script.exports = "null"
    \/ script.gpd.kind # "function"
    \/ script.gpd.throws

\* C16: getParameterDefinitions never fails; it returns the empty list when
\* the script cannot be loaded, exports no such function or the function
\* throws, and otherwise the value the function returned.
C16_ReturnsFunctionValue ==
    pd.called =>
        /\ ~pd.threw
        /\ DefinitionsFailure => pd.result = EmptyList
        /\ ~DefinitionsFailure => pd.result = script.gpd.result

\* the function of a script returned a promise that rejects, and the lookup
\* failed with that rejection
C16_Witness ==
    /\ pd.called
    /\ script.gpd.settles = "rejects"
    /\ pd.threw
    /\ pd.error = AsyncError

----------------------------------------------------------------------------
(* Claims about the extension and its preview *)

RECURSIVE LastRenderUpTo(_)
\* the last renderEntities message among those the client script has handled
\* up to the k-th posted, or 0
LastRenderUpTo(k) ==
    IF k <= view.base THEN 0
    ELSE IF posted[k].type = "renderEntities" THEN k
    ELSE LastRenderUpTo(k - 1)

\* the client script has just handled an 'error' message
ErrorHandled ==
    /\ panel
    /\ view.seen > view.base
    /\ posted[view.seen].type = "error"

\* C17: when the client script has handled an 'error' message, the scene holds
\* exactly the objects of the last renderEntities message it handled (none
\* when there was none), and the overlay is shown with the error's message.
C17_ErrorKeepsScene ==
    ErrorHandled =>
        /\ view.meshes =
              IF LastRenderUpTo(view.seen) = 0 THEN <<>>
              ELSE RenderGeometries(posted[LastRenderUpTo(view.seen)].entities)
        /\ view.errorShown
        /\ view.errorText = posted[view.seen].message

\* an error is shown over a scene that holds the solid of an earlier render
C17_Witness ==
    /\ ErrorHandled
    /\ LastRenderUpTo(view.seen) > 0
    /\ Len(view.meshes) = 1
    /\ view.errorShown
    /\ view.errorText = MainError.message

\* C18: of two executeAndRender calls, the one that began later posts its
\* message later: the last message posted is the later call's.
C18_LaterSupersedes ==
    \A i, j \in 1..Len(posted) : i < j => posted[i].run < posted[j].run

\* the call that began first posted after the call that began second
C18_Witness ==
    /\ Len(posted) = 2
    /\ posted[1].run = 2
    /\ posted[2].run = 1
    /\ \A r \in 1..Len(runs) : runs[r].pc = "done"

\* the call r was begun by a parameterChanged message and has called main
ParameterRun(r) ==
    /\ runs[r].trigger = "parameterChanged"
    /\ runs[r].exec.mainCalls = 1

\* the definition the script of the call r declares under the name n
Declares(r, n) ==
    \E k \in 1..Len(runs[r].defs.result.defs) : runs[r].defs.result.defs[k].name = n
DefinitionOf(r, n) ==
    LET defs == runs[r].defs.result.defs
    IN  defs[CHOOSE k \in 1..Len(defs) : defs[k].name = n]

\* main of the call r was passed the coerced value of the message of call q
PassedValueOf(r, q) ==
    /\ EntHas(runs[r].exec.mainArg, runs[r].name)
    /\ EntGet(runs[r].exec.mainArg, runs[r].name)
          = CoerceValue(DefinitionOf(r, runs[r].name), runs[q].value)

\* C19 as stated: the parameters passed to main in the re-execution a
\* parameterChanged message began, and the values posted back, hold the
\* coerced value of that message for its name, when the script declares the
\* name and the value coerces.
C19_OwnValuePassed ==
    \A r \in 1..Len(runs) :
        (/\ ParameterRun(r)
         /\ Declares(r, runs[r].name)
         /\ CoerceValue(DefinitionOf(r, runs[r].name), runs[r].value) # Undefined)
        => PassedValueOf(r, r)

\* the calls begun by parameterChanged messages for the name of the call r,
\* from r on
LaterMessages(r) ==
    {q \in r..Len(runs) : /\ runs[q].trigger = "parameterChanged"
                          /\ runs[q].name = runs[r].name}

\* C19: the handler writes the cache before the re-execution begins, so the
\* cache holds the value of the latest parameterChanged message for a name;
\* the re-execution reads the cache after its first await, so main is passed
\* the coerced value of its own message or of a later one for the same name,
\* and of its own when there is no later one; the values posted back are the
\* parameters main was passed.
C19_LatestValuePassed ==
    /\ \A r \in 1..Len(runs) :
          (runs[r].trigger = "parameterChanged" /\ LaterMessages(r) = {r}) =>
              /\ EntHas(CachedOrEmpty(cache, TheFile), runs[r].name)
              /\ EntGet(CachedOrEmpty(cache, TheFile), runs[r].name) = runs[r].value
    /\ \A r \in 1..Len(runs) :
          (ParameterRun(r) /\ Declares(r, runs[r].name)) =>
              \E q \in LaterMessages(r) : PassedValueOf(r, q)
    /\ \A k \in 1..Len(posted) :
          posted[k].type = "renderEntities" =>
              posted[k].values = runs[posted[k].run].exec.mainArg

\* a parameterChanged message carried the string 'TRUE' for the checkbox, and
\* main was passed true and the same was posted back
C19_Witness ==
    \E k \in 1..Len(posted) :
        /\ posted[k].type = "renderEntities"
        /\ runs[posted[k].run].trigger = "parameterChanged"
        /\ runs[posted[k].run].value = Str(cTRUE)
        /\ runs[posted[k].run].exec.mainArg = <<[key |-> "flag", val |-> Bool(TRUE)]>>
        /\ posted[k].values = <<[key |-> "flag", val |-> Bool(TRUE)]>>

\* the messages the call r posted
MessagesOf(r) == {k \in 1..Len(posted) : posted[k].run = r}

\* the steps that handle a trigger
TriggerStep ==
    \/ WebviewReady
    \/ RevealPreview
    \/ \E v \in ExtValues : ParameterChanged("flag", v)
    \/ \E s \in ExtScripts : SaveWithPanel(s)

\* C20: every executeAndRender call was begun by a trigger and a trigger
\* begins one call; a call invokes main at most once and posts at most one
\* message; a call that has ended is not resumed; a call that fails posts one
\* 'error' message when the panel is open and none otherwise.
C20_OnceAndNoRetry ==
    /\ [](\A r \in 1..Len(runs) :
             /\ runs[r].exec.mainCalls <= 1
             /\ Cardinality(MessagesOf(r)) <= 1
             /\ runs[r].trigger \in {"ready", "openPreview", "parameterChanged", "save"})
    /\ [][/\ Len(runs') # Len(runs) => (Len(runs') = Len(runs) + 1 /\ TriggerStep)
          /\ \A r \in 1..Len(runs) :
                /\ runs[r].pc = "done" => runs'[r] = runs[r]
                /\ (runs[r].pc # "done" /\ runs'[r].pc = "done" /\ status' = "HootCAD: Error")
                   => /\ Len(posted') = Len(posted) + (IF panel THEN 1 ELSE 0)
                      /\ panel => /\ posted'[Len(posted')].type = "error"
                                  /\ posted'[Len(posted')].run = r]_vars

\* a call whose main threw has ended: main was called once and one 'error'
\* message was posted for it
C20_Witness ==
    \E r \in 1..Len(runs) :
        /\ runs[r].pc = "done"
        /\ runs[r].exec.threw
        /\ runs[r].exec.mainCalls = 1
        /\ Cardinality(MessagesOf(r)) = 1
        /\ \A k \in MessagesOf(r) : posted[k].type = "error"

\* the call r has ended in the catch block of executeAndRender
RunFailed(r) ==
    /\ runs[r].pc = "done"
    /\ \/ runs[r].defs.threw
       \/ runs[r].defs.result.t # "array"
       \/ runs[r].exec.threw

\* the steps that handle a save of the script
SaveStep ==
    \/ \E s \in ExtScripts : SaveWithPanel(s)
    \/ \E s \in ExtScripts : SaveWithoutPanel(s)

\* C21: the status 'HootCAD: Error' is left only by a step that handles a
\* save, an editor change or an execute trigger; no status-reset timer of an
\* earlier render or save takes it away.
C21_ErrorStatusPersists ==
    [][(status = "HootCAD: Error" /\ status' # "HootCAD: Error")
          => (SaveStep \/ EditorChange \/ TriggerStep)]_vars

\* the last call failed, no call is running and no timer is pending, and the
\* status reads 'HootCAD: Ready'
C21_Witness ==
    /\ Len(runs) > 0
    /\ \A r \in 1..Len(runs) : runs[r].pc = "done"
    /\ RunFailed(Len(runs))
    /\ runs[Len(runs)].trigger = "save"
    /\ panel
    /\ timers = 0
    /\ status = "HootCAD: Ready"

----------------------------------------------------------------------------
(* Claims about the InputController *)

\* the last event was one of the element and its listener was registered
Delivered == icEv.type \in EventTypes /\ icEv.type \in icPre.listeners

\* the calls of fn the last event made
CallsOf(fn) == SelectSeq(icCalls, LAMBDA c : c.fn = fn)

\* C22: a mousedown while enabled leaves the controller dragging with the
\* pointer position recorded; a mouseup or mouseleave while dragging leaves it
\* idle; the drag state is entered by a mousedown only; rotate is called only
\* by a mousemove received while enabled and dragging.
C22_TwoStateMachine ==
    /\ (icEv.type = "mousedown" /\ Delivered /\ icPre.enabled) =>
          /\ ic.isDragging
          /\ ic.previousMousePosition = [x |-> icEv.clientX, y |-> icEv.clientY]
    /\ (icEv.type \in {"mouseup", "mouseleave"} /\ Delivered /\ icPre.isDragging) =>
          ~ic.isDragging
    /\ (ic.isDragging /\ ~icPre.isDragging) => icEv.type = "mousedown"
    /\ CallsOf("rotate") # <<>> =>
          /\ icEv.type = "mousemove"
          /\ icPre.enabled
          /\ icPre.isDragging

\* a mousemove of a drag rotated the camera by the pointer's displacement
C22_Witness ==
    /\ icEv.type = "mousemove"
    /\ icPre.isDragging
    /\ Len(CallsOf("rotate")) = 1
    /\ icCalls[1].a = 3 * ROTATION_SENSITIVITY
    /\ ic.isDragging

\* C23: a disabled controller is never dragging; an event received while
\* disabled makes no call; disable() leaves the controller disabled and idle,
\* so it is idle after the enable() that follows.
C23_DisabledIsInert ==
    /\ ~ic.enabled => ~ic.isDragging
    /\ (icEv.type \in EventTypes /\ ~icPre.enabled) => (icCalls = <<>> /\ ic = icPre)
    /\ icEv.type = "disable" => (~ic.enabled /\ ~ic.isDragging)
    /\ (icEv.type = "enable" /\ ~icPre.enabled) => (ic.enabled /\ ~ic.isDragging)

\* disable() was called in the middle of a drag
C23_Witness ==
    /\ icEv.type = "disable"
    /\ icPre.isDragging
    /\ ~ic.isDragging

\* C24: the delta of a wheel event is deltaY times 1, 16 or 100 by deltaMode
\* 0, 1 or 2; the zoom speed is 0.0008 when its absolute value is greater than
\* 15 and 0.005 otherwise; zoom is called with exp(delta x speed).
C24_WheelZoom ==
    (icEv.type = "wheel" /\ Delivered /\ icPre.enabled) =>
        LET delta == icEv.deltaY * (CASE icEv.deltaMode = 0 -> 1
                                      [] icEv.deltaMode = 1 -> 16
                                      [] icEv.deltaMode = 2 -> 100)
            discrete == delta > 15 \/ delta < -15
        IN  /\ Len(CallsOf("zoom")) = 1
            /\ CallsOf("zoom")[1].a = delta * (IF discrete THEN 8 ELSE 50)
            /\ (icEv.deltaMode = 0 /\ icEv.deltaY = 15) => CallsOf("zoom")[1].a = 750
            /\ (icEv.deltaMode = 0 /\ icEv.deltaY = 16) => CallsOf("zoom")[1].a = 128

\* a wheel event of 15 pixels zoomed at the trackpad speed
C24_Witness ==
    /\ icEv.type = "wheel"
    /\ icEv.deltaMode = 0
    /\ icEv.deltaY = 15
    /\ Len(CallsOf("zoom")) = 1
    /\ CallsOf("zoom")[1].a = 15 * TRACKPAD_ZOOM_SPEED

\* C25: a mousedown or a wheel event received while enabled calls the
\* onInteraction hook once; a mousemove, mouseup or mouseleave never calls it.
C25_InteractionHook ==
    /\ (icEv.type \in {"mousedown", "wheel"} /\ Delivered /\ icPre.enabled) =>
          Len(CallsOf("onInteraction")) = 1
    /\ icEv.type \in {"mousemove", "mouseup", "mouseleave"} =>
          CallsOf("onInteraction") = <<>>

\* a mousedown called the hook once
C25_Witness ==
    /\ icEv.type = "mousedown"
    /\ icPre.enabled
    /\ icCalls = <<Call("onInteraction", 0, 0)>>

\* C26: a wheel event leaves the drag state and the recorded pointer position
\* as they were, and zooms once whether the controller is idle or dragging.
C26_WheelIndependent ==
    icEv.type = "wheel" =>
        /\ ic.isDragging = icPre.isDragging
        /\ ic.previousMousePosition = icPre.previousMousePosition
        /\ (Delivered /\ icPre.enabled) => Len(CallsOf("zoom")) = 1

\* a wheel event zoomed in the middle of a drag
C26_Witness ==
    /\ icEv.type = "wheel"
    /\ icPre.isDragging
    /\ ic.isDragging
    /\ ic.previousMousePosition = [x |-> 3, y |-> 2]
    /\ Len(CallsOf("zoom")) = 1

\* C27: detach() leaves no listener registered; an event of the element then
\* makes no call and changes nothing; a second detach() changes nothing.
C27_DetachedIsInert ==
    /\ icEv.type = "detach" => ic.listeners = {}
    /\ (icEv.type \in EventTypes /\ icPre.listeners = {}) =>
          (icCalls = <<>> /\ ic = icPre)
    /\ (icEv.type = "detach" /\ icPre.listeners = {}) => ic = icPre

\* a wheel event found no listener on an enabled controller
C27_Witness ==
    /\ icEv.type = "wheel"
    /\ icPre.listeners = {}
    /\ icPre.enabled
    /\ icCalls = <<>>

----------------------------------------------------------------------------
(* Claims about the orbit controls *)

\* C28: after any sequence of canvas events the polar angle is within
\* [0.1, pi - 0.1] and the camera distance within [5, 200], and so are the
\* coordinates the camera was last placed from.
C28_OrbitClamped ==
    /\ 1000 <= orbit.phi /\ orbit.phi <= PI - 1000
    /\ 50000 <= orbit.distance /\ orbit.distance <= 2000000
    /\ orbit.camera.distance # 0 =>
          /\ 1000 <= orbit.camera.phi /\ orbit.camera.phi <= PI - 1000
          /\ 50000 <= orbit.camera.distance /\ orbit.camera.distance <= 2000000

\* a drag has pushed the polar angle to its upper limit and the wheel the
\* distance to its lower limit
C28_Witness ==
    /\ orbit.phi = PI - 1000
    /\ orbit.distance = 5 * Scale
    /\ orbit.camera.phi = orbit.phi
    /\ orbit.camera.distance = orbit.distance

----------------------------------------------------------------------------
(* Claims about the script loader *)

\* C29: what the outermost script of a load sees when it starts is what it
\* sees in a first load: the global of its context is not set and the field
\* of the module it requires has its initial value, whatever earlier loads
\* wrote.
C29_LoadsIsolated ==
    \A k \in 1..Len(loads) :
        ~loads[k].threw =>
            /\ ~loads[k].exports[1].global
            /\ loads[k].exports[1].field = 0

\* the second load, of another script, found the context clean and read what
\* the first load had written to the module both require
C29_Witness ==
    /\ Len(loads) = 2
    /\ loads[1].path # loads[2].path
    /\ ~loads[2].threw
    /\ ~loads[2].exports[1].global
    /\ loads[2].exports[1].field = 1

\* C30: a load of a path never begins while a load of the same path is in
\* progress: the re-entrant load is refused.
C30_NoReentrantLoad ==
    \A i, j \in 1..Len(stack) : i < j => stack[i].path # stack[j].path

\* the load of a script that requires itself ended when the call stack was
\* exhausted
C30_Witness ==
    \E k \in 1..Len(loads) :
        /\ files[loads[k].path].requires = loads[k].path
        /\ loads[k].threw
        /\ loads[k].error = MaximumCallStack

----------------------------------------------------------------------------
(* Claims about the resolver's overrides *)

\* the caller supplied both overrides; null is a supplied active file
OverridesSupplied ==
    /\ rsOut # Pending
    /\ rsIn.optRoot # Undefined
    /\ rsIn.optEditor # Undefined

\* C31: when both overrides are supplied, the result is the same whatever
\* workspace folder and active editor the host has.
C31_OverridesDecide ==
    OverridesSupplied =>
        \A root \in {Undefined, Str(cRootV)}, editor \in {Undefined, Str(cOtherJscad)} :
            ResolveJscadEntrypointWithOptions(
                [rsIn EXCEPT !.vsRoot = root, !.vsEditor = editor]) = rsOut

\* the caller passed null for 'no active file' and the host's active editor
\* was returned
C31_Witness ==
    /\ OverridesSupplied
    /\ rsIn.optEditor = Null
    /\ rsIn.optRoot = Str(cRootW)
    /\ rsOut = Entry(cOtherJscad, "active-editor")

----------------------------------------------------------------------------
(* Claims about the entries of executeJscadFile *)

\* the entry e is the one the claim gives for the value g
EntryAsClaimed(g, e) ==
    /\ IsArray(g.polygons) =>
          /\ e.type = "geom3"
          /\ e.polygons = g.polygons
          /\ e.transforms = g.transforms
          /\ e.color = g.color
    /\ (IsArray(g.sides) /\ ~IsArray(g.polygons)) =>
          /\ e.type = "geom2"
          /\ e.sides = g.sides
          /\ e.transforms = g.transforms
          /\ e.color = g.color
    /\ Unclassified(g) => e.type = "unknown"

\* C32: when main returns, executeJscadFile returns one entry for each value
\* main returned, in the same order (one entry for a value that is not a
\* list); the entry is tagged geom3 for a value with an array `polygons`,
\* geom2 for one with an array `sides` only, unknown otherwise, and carries
\* the value's polygons or sides, transforms and color.
C32_OneEntryPerGeometry ==
    (ex.called /\ MainReturned) =>
        /\ ex.returned
        /\ Len(ex.result) = Len(script.main.result.items)
        /\ \A i \in 1..Len(script.main.result.items) :
              EntryAsClaimed(script.main.result.items[i], ex.result[i])

\* main returned a solid and null in a list and executeJscadFile returned no
\* entry at all
C32_Witness ==
    /\ ex.called
    /\ MainReturned
    /\ script.main.result.isArray
    /\ Len(script.main.result.items) = 2
    /\ IsArray(script.main.result.items[1].polygons)
    /\ script.main.result.items[2] = Plain("null", FALSE)
    /\ ex.threw
    /\ ex.result = <<>>

----------------------------------------------------------------------------
(* Claims about the normals of a solid *)

\* the number num / sqrt(den2) of a normal buffer, for an integer
Whole(n) == [num |-> n, den2 |-> 1]

\* The normal the claim gives a polygon: the cross product of the edges from
\* its first vertex to its second and third, each component divided by the
\* length of the cross product, and the zero vector when that length is 0.
ClaimedNormal(vertices) ==
    LET c == FaceCross(vertices)
        len2 == c[1] * c[1] + c[2] * c[2] + c[3] * c[3]
    IN  IF len2 = 0 THEN <<Whole(0), Whole(0), Whole(0)>>
        ELSE [i \in 1..3 |-> [num |-> c[i], den2 |-> len2]]

\* the sequence s repeated n times
RECURSIVE Repeated(_, _)
Repeated(s, n) == IF n = 0 THEN <<>> ELSE s \o Repeated(s, n - 1)

\* the normals the claim gives the polygons from i on: for a polygon of n >= 3
\* vertices its normal once for each of the 3 (n - 2) triangle vertices
RECURSIVE ClaimedNormals(_, _)
ClaimedNormals(polygons, i) ==
    IF i > Len(polygons) THEN <<>>
    ELSE (IF Len(polygons[i]) >= 3
          THEN Repeated(ClaimedNormal(polygons[i]), 3 * (Len(polygons[i]) - 2))
          ELSE <<>>)
         \o ClaimedNormals(polygons, i + 1)

\* C33: the normal buffer holds, for every polygon of at least 3 vertices, the
\* unit normal of its first three vertices once for every vertex of every
\* triangle, and the zero vector when the three are collinear or coincident;
\* the unit square alone gives 18 positions and (0, 0, 1) six times.
C33_FaceNormals ==
    buf.done =>
        /\ buf.normals = ClaimedNormals(geom.polygons, 1)
        /\ geom.polygons = <<UnitSquare>> =>
              /\ Len(buf.positions) = 18
              /\ buf.normals = Repeated(<<Whole(0), Whole(0), Whole(1)>>, 6)

\* the unit square and a triangle of three collinear points were converted:
\* six normals (0, 0, 1) and three zero normals
C33_Witness ==
    /\ buf.done
    /\ geom.polygons = <<UnitSquare, Poly(0, 3)>>
    /\ FaceCross(Poly(0, 3)) = <<0, 0, 0>>
    /\ Len(buf.positions) = 27
    /\ buf.normals = Repeated(<<Whole(0), Whole(0), Whole(1)>>, 6)
                       \o Repeated(<<Whole(0), Whole(0), Whole(0)>>, 3)

----------------------------------------------------------------------------
(* Claims about the recovery of errors *)

\* the error the script on disk throws when it is loaded or when its main is
\* called
ThrownBy(s) ==
    IF s.load # "ok" THEN LoadErrors[s.load]
    ELSE IF s.main.kind = "function" /\ s.main.throws THEN MainError
    ELSE NoError

\* executeJscadFile is called for the call r in this step
ExecutesIn(r) == runs[r].pc = "awaitDefs" /\ runs'[r].pc = "awaitExec"

\* the call r ends in this step after executeJscadFile threw
FailsIn(r) ==
    /\ runs[r].pc = "awaitExec"
    /\ runs'[r].pc = "done"
    /\ runs[r].exec.threw

\* C34: when the script throws while it is loaded or inside main,
\* executeJscadFile rejects with that same error; the call of
\* executeAndRender then ends with the status 'HootCAD: Error', and posts one
\* 'error' message carrying the error's message when the panel is open and
\* nothing when it is not.
C34_ErrorsRecovered ==
    [][\A r \in 1..Len(runs) :
          /\ (ExecutesIn(r) /\ ThrownBy(disk) # NoError) =>
                /\ runs'[r].exec.threw
                /\ runs'[r].exec.error = ThrownBy(disk)
          /\ FailsIn(r) =>
                /\ status' = "HootCAD: Error"
                /\ panel => posted' = Append(posted,
                               Message("error", r, <<>>, <<>>, <<>>,
                                       runs[r].exec.error.message))
                /\ ~panel => posted' = posted]_vars

\* the error thrown while the script was loaded has reached the preview: the
\* status is the error status and the overlay shows the error's message
C34_Witness ==
    /\ disk.load = "throws"
    /\ status = "HootCAD: Error"
    /\ Len(runs) > 0
    /\ runs[Len(runs)].pc = "done"
    /\ runs[Len(runs)].exec.error = LoadErrors.throws
    /\ panel
    /\ view.errorShown
    /\ view.errorText = LoadErrors.throws.message

----------------------------------------------------------------------------
(* Claims about what the operations of the cache leave alone *)

\* the mappings a and b of one file agree on every parameter but paramName
SameButFor(a, b, paramName) ==
    \A n \in (EntKeys(a) \cup EntKeys(b)) \ {paramName} :
        /\ EntHas(a, n)
        /\ EntHas(b, n)
        /\ EntGet(a, n) = EntGet(b, n)

\* every file but filePath has in d the mapping it has in c, or none in both
OtherFilesKept(c, d, filePath) ==
    \A f \in (EntKeys(c) \cup EntKeys(d)) \ {filePath} :
        /\ EntHas(c, f)
        /\ EntHas(d, f)
        /\ EntGet(c, f) = EntGet(d, f)

C36_MergeReadOnly ==
    [][op'.name = "getMergedParameters" =>
          /\ cache' = cache
          /\ store' = store
          /\ \A i \in FailingCoercion(cache, op'.path, op'.defs) :
                /\ EntHas(CachedOrEmpty(cache', op'.path), op'.defs[i].name)
                /\ EntGet(CachedOrEmpty(cache', op'.path), op'.defs[i].name)
                      = EntGet(CachedOrEmpty(cache, op'.path),
                               op'.defs[i].name)
          /\ GetMergedParameters(cache', op'.path, op'.defs) = merged']_vars

\* getMergedParameters has met a cached value that fails coercion: the value
\* is cached and the merged mapping does not hold it
C36_Witness ==
    /\ op.name = "getMergedParameters"
    /\ FailingCoercion(cache, op.path, op.defs) # {}
    /\ \A i \in FailingCoercion(cache, op.path, op.defs) :
          ~EntHas(merged, op.defs[i].name)
          \/ EntGet(merged, op.defs[i].name)
                # EntGet(CachedOrEmpty(cache, op.path), op.defs[i].name)

----------------------------------------------------------------------------
(* Claims about the end of an execution *)

\* nothing is left to happen without a further event: every call of
\* executeAndRender has ended and no status-reset timer is pending
Quiet ==
    /\ queue = <<>>
    /\ timers = 0
    /\ \A r \in 1..Len(runs) : runs[r].pc = "done"

\* C37: a call of executeAndRender that set the status to
\* 'HootCAD: Executing...' has left that status by the time it has ended and
\* the timers have fired, also when the panel was disposed while the call
\* was in progress.
C37_ExecutingIsLeft == Quiet => status # "HootCAD: Executing..."

\* a call begun from the preview has ended without an error after the panel
\* was disposed, nothing is pending, and the status still reads
\* 'HootCAD: Executing...'
C37_Witness ==
    /\ Quiet
    /\ ~panel
    /\ Len(runs) > 0
    /\ runs[Len(runs)].trigger # "save"
    /\ ~RunFailed(Len(runs))
    /\ status = "HootCAD: Executing..."

----------------------------------------------------------------------------
(* Claims about the MCP server process *)

\* the process p is alive and was not sent kill
Serving(p) == procs[p].running /\ ~procs[p].killed

\* C38: at most one child process of the manager is alive (and not already
\* sent kill) at any time, also when a startMcpServer call begins while an
\* earlier one is waiting for the banner of its candidate.
C38_AtMostOneAlive ==
    Cardinality({p \in DOMAIN procs : Serving(p)}) <= 1

\* two calls of startMcpServer each have a candidate that is alive, was not
\* sent kill and has shown its banner; mcpProcess refers to one of them
C38_Witness ==
    \E p, q \in DOMAIN procs :
        /\ procs[p].call # procs[q].call
        /\ Serving(p) /\ procs[p].started
        /\ Serving(q) /\ procs[q].started
        /\ mcpProcess = q

\* the accepted processes that are alive and were not sent kill
LiveServers == {p \in DOMAIN procs : Serving(p) /\ procs[p].accepted > 0}

\* C39: while an accepted server process is alive and was not sent kill,
\* mcpProcess refers to the most recently accepted such process; in
\* particular the 'exit' or 'error' event of a process that was stopped or
\* replaced does not clear the reference to a later one.
C39_TracksLiveServer ==
    \A p \in LiveServers :
        (\A q \in LiveServers : procs[q].accepted <= procs[p].accepted)
            => mcpProcess = p

\* the 'exit' event of a stopped server has been handled after a later
\* server was accepted: that server is alive and mcpProcess is null
C39_Witness ==
    /\ mcpProcess = 0
    /\ ~disposed
    /\ \E p, q \in DOMAIN procs :
          /\ procs[p].killed /\ procs[p].lifecycle /\ procs[p].ev = "handled"
          /\ procs[p].accepted > 0
          /\ procs[q].accepted > procs[p].accepted
          /\ LiveServers = {q}

\* C40: the promise of a candidate settles once, with true only when the
\* banner was seen; a candidate whose promise settled with false is never
\* assigned to mcpProcess, and a candidate that timed out was sent kill.
C40_RejectedNeverAccepted ==
    \A p \in DOMAIN procs :
        /\ procs[p].settled = "true" => procs[p].started
        /\ procs[p].settled = "false" => procs[p].accepted = 0
        /\ procs[p].timedOut => procs[p].killed

\* a candidate timed out, was sent kill and settled with false, then its
\* banner arrived: mcpProcess refers to it
C40_Witness ==
    \E p \in DOMAIN procs :
        /\ procs[p].timedOut
        /\ procs[p].killed
        /\ procs[p].settled = "false"
        /\ procs[p].banner
        /\ mcpProcess = p

====
